---- MODULE Spec2Model ----
(***************************************************************************)
(* Model of the IP address / subnet part of @rjweb/utils (network.ts):     *)
(* IPAddress, Subnet, isIP, isSubnet; and of its Queue (queue.ts).         *)
(*                                                                         *)
(* JavaScript values are modelled as follows.                              *)
(*   string      a sequence of one-character strings                      *)
(*   number /    a record [neg, mag] or a bare magnitude, the magnitude a  *)
(*   bigint      little-endian sequence of NL limbs in base 65536 (TLC's   *)
(*               integers stop at 2^31 - 1, an IPv4 address does not)      *)
(*   typed array an entry of the heap `arrays`: its contents; objects hold *)
(*               the index, so two objects can share one array             *)
(*                                                                         *)
(* Specifications.                                                         *)
(*   Spec          builds two subnets and an address, asks includes(),     *)
(*                 walks the subnets with several iterators                *)
(*   SpecBuild     one constructor call on an input of any form, copies,   *)
(*                 first(), last(), size()                                 *)
(*   SpecValidate  isIP and isSubnet on address and CIDR texts             *)
(*   SpecLongWalk  an iterator far into a large IPv6 subnet                *)
(*   SpecAddress   one address from IPv4 text or IPv6 groups, and its      *)
(*                 long(), short(), usual(), int(), equals()               *)
(*   SpecGroups    isIP and isSubnet on colon-separated texts              *)
(*   SpecProbe     one constructor call on any text, good or bad           *)
(*   SpecRoundTrip one address, its short() text and the address built     *)
(*                 from that text                                          *)
(*   SpecAlias     an address or a subnet, its copy, and a write to an     *)
(*                 array they hold                                         *)
(*   SpecRead      a subnet and an address, and every read operation       *)
(*   SpecQueue     add() calls, timers and completions of a Queue          *)
(*   SpecQueueFair the same, for ever, with timers that fire and           *)
(*                 functions that settle                                   *)
(*   SpecWaiters   the same with addAndWaitForFinish()                     *)
(*   SpecCallbacks the same with finish() and error()                      *)
(*   SpecHelpers   one call of number.prime() or object.deepCompare()      *)
(***************************************************************************)
EXTENDS Integers, Sequences, FiniteSets, TLC

VARIABLES arrays, ips, subnets, iters, ret, arg, queue, env

vars == <<arrays, ips, subnets, iters, ret, arg, queue, env>>

\* the programs about addresses make no Queue
NoQueue == queue = <<>> /\ env = <<>>

(***************************************************************************)
(* Let(v, F) is F(v) with v computed once, however often F uses it         *)
(***************************************************************************)
Let(v, F(_)) == CHOOSE r \in {F(x) : x \in {v}} : TRUE
Let2(u, v, F(_, _)) == CHOOSE r \in {F(x, y) : x \in {u}, y \in {v}} : TRUE

(***************************************************************************)
(* Wide unsigned integers                                                  *)
(***************************************************************************)
Base == 2 ^ 16
NL == 9

Pow2Small(n) == 2 ^ n

Max(S) == CHOOSE x \in S : \A y \in S : y <= x

BigZero == [k \in 1..NL |-> 0]

\* a TLC integer 0 <= n < 2^31 as a wide integer
BigFromNat(n) == [k \in 1..NL |-> IF k = 1 THEN n % Base
                                   ELSE IF k = 2 THEN n \div Base ELSE 0]

\* the carry into limb k of a + b
RECURSIVE BigAddCarry(_, _, _)
BigAddCarry(a, b, k) ==
    IF k <= 1 THEN 0 ELSE (a[k - 1] + b[k - 1] + BigAddCarry(a, b, k - 1)) \div Base

BigAdd(a, b) ==
    Let2(a, b, LAMBDA x, y : [k \in 1..NL |-> (x[k] + y[k] + BigAddCarry(x, y, k)) % Base])

\* the carry into limb k of a * m + d
RECURSIVE BigMulAddCarry(_, _, _, _)
BigMulAddCarry(a, m, d, k) ==
    IF k <= 1 THEN d ELSE (a[k - 1] * m + BigMulAddCarry(a, m, d, k - 1)) \div Base

\* the borrow from limb k of a - b
RECURSIVE BigSubBorrow(_, _, _)
BigSubBorrow(a, b, k) ==
    IF k <= 1 THEN 0
    ELSE IF a[k - 1] - b[k - 1] - BigSubBorrow(a, b, k - 1) < 0 THEN 1 ELSE 0

\* a - b for a >= b
BigSub(a, b) ==
    Let2(a, b, LAMBDA x, y : [k \in 1..NL |-> (x[k] - y[k] - BigSubBorrow(x, y, k)) % Base])

\* a * m + d for small m, d
BigMulAdd(a, m, d) ==
    Let(a, LAMBDA x : [k \in 1..NL |-> (x[k] * m + BigMulAddCarry(x, m, d, k)) % Base])

BigLess(a, b) ==
    Let2(a, b, LAMBDA x, y :
        Let({k \in 1..NL : x[k] # y[k]}, LAMBDA d : d # {} /\ x[Max(d)] < y[Max(d)]))

BigLeq(a, b) == Let2(a, b, LAMBDA x, y : x = y \/ BigLess(x, y))

\* 2^n
BigPow2(n) == [k \in 1..NL |-> IF k = (n \div 16) + 1 THEN Pow2Small(n % 16) ELSE 0]

Limb(a, k) == IF k \in 1..NL THEN a[k] ELSE 0

\* a >> s
BigShr(a, s) ==
    Let(a, LAMBDA x :
        [k \in 1..NL |-> (Limb(x, k + (s \div 16)) \div Pow2Small(s % 16))
                          + (Limb(x, k + (s \div 16) + 1) % Pow2Small(s % 16))
                            * Pow2Small(16 - (s % 16))])

\* a << s (bits shifted out of the NL limbs are dropped)
BigShl(a, s) ==
    Let(a, LAMBDA x :
        [k \in 1..NL |-> ((Limb(x, k - (s \div 16)) * Pow2Small(s % 16)) % Base)
                          + (Limb(x, k - (s \div 16) - 1) \div Pow2Small(16 - (s % 16)))])

\* a & (2^16 - 1), a & (2^8 - 1) as TLC integers
BigLow16(a) == a[1]
BigLow8(a) == a[1] % 256

BigBit(a, n) == (a[(n \div 16) + 1] \div Pow2Small(n % 16)) % 2

\* number of significant bits
BigBitLen(a) ==
    Let(a, LAMBDA x :
        Let({k \in 1..NL : x[k] # 0}, LAMBDA S :
            IF S = {} THEN 0
            ELSE 16 * (Max(S) - 1) + Max({n \in 1..16 : x[Max(S)] >= Pow2Small(n - 1)})))

\* an integer of more than 53 bits rounded to 53 significant bits, ties to even
RoundTo53(a, len) ==
    Let2(BigShl(BigShr(a, len - 53), len - 53),
         /\ BigBit(a, len - 54) = 1
         /\ \/ \E n \in 0..(len - 55) : BigBit(a, n) = 1
            \/ BigBit(a, len - 53) = 1,
         LAMBDA kept, up : IF up THEN BigAdd(kept, BigPow2(len - 53)) ELSE kept)

\* an integer rounded to the nearest IEEE-754 double: what Number(bigint)
\* and a double addition produce
RoundDouble(a) ==
    Let(a, LAMBDA x :
        Let(BigBitLen(x), LAMBDA len : IF len <= 53 THEN x ELSE RoundTo53(x, len)))

MAX_IPV4_LONG == [k \in 1..NL |-> IF k <= 2 THEN 65535 ELSE 0]
MAX_IPV6_LONG == [k \in 1..NL |-> IF k <= 8 THEN 65535 ELSE 0]

(***************************************************************************)
(* Text: strings are sequences of one-character strings                    *)
(***************************************************************************)
Min(S) == CHOOSE x \in S : \A y \in S : x <= y

DigitChars == <<"0", "1", "2", "3", "4", "5", "6", "7", "8", "9",
                "a", "b", "c", "d", "e", "f">>
UpperChars == <<"0", "1", "2", "3", "4", "5", "6", "7", "8", "9",
                "A", "B", "C", "D", "E", "F">>

\* the value of a character as a digit, 99 when it is no digit
CharVal(c) ==
    IF \E i \in 1..16 : DigitChars[i] = c
    THEN (CHOOSE i \in 1..16 : DigitChars[i] = c) - 1
    ELSE IF \E i \in 1..16 : UpperChars[i] = c
         THEN (CHOOSE i \in 1..16 : UpperChars[i] = c) - 1
         ELSE 99

WhiteSpace == {" "}

Drop(s, n) == SubSeq(s, n + 1, Len(s))

\* String.prototype.includes(c) for a one-character c
StrIncludes(s, c) == \E i \in 1..Len(s) : s[i] = c

\* the position of separator j of the positions idx in a text of length n:
\* 0 before the first, n + 1 behind the last
SepAt(idx, j, n) ==
    IF j = 0 THEN 0
    ELSE IF j > Cardinality(idx) THEN n + 1
    ELSE CHOOSE i \in idx : Cardinality({p \in idx : p < i}) = j - 1

\* String.prototype.split(c) for a one-character separator c
Split(s, c) ==
    Let(s, LAMBDA t :
    Let({i \in 1..Len(t) : t[i] = c}, LAMBDA idx :
        [j \in 1..(Cardinality(idx) + 1) |->
            SubSeq(t, SepAt(idx, j - 1, Len(t)) + 1, SepAt(idx, j, Len(t)) - 1)]))

TrimLeft(s) ==
    Let(s, LAMBDA t :
    Let({i \in 1..Len(t) : t[i] \notin WhiteSpace}, LAMBDA solid :
        IF solid = {} THEN <<>> ELSE SubSeq(t, Min(solid), Len(t))))

TrimRight(s) ==
    Let(s, LAMBDA t :
    Let({i \in 1..Len(t) : t[i] \notin WhiteSpace}, LAMBDA solid :
        IF solid = {} THEN <<>> ELSE SubSeq(t, 1, Max(solid))))

\* the longest prefix of s made of digits of the radix
DigitPrefix(s, radix) ==
    Let(s, LAMBDA t :
    Let({i \in 1..Len(t) : CharVal(t[i]) >= radix}, LAMBDA other :
        IF other = {} THEN t ELSE SubSeq(t, 1, Min(other) - 1)))

\* the value of digit k of s, 0 when k is outside s
DigitAt(s, k) == IF k \in 1..Len(s) THEN CharVal(s[k]) ELSE 0

\* the value of the first k digits of a digit string, three digits at a time
RECURSIVE DigitsValue(_, _, _)
DigitsValue(s, radix, k) ==
    IF k <= 0 THEN BigZero
    ELSE IF k = 1 THEN BigFromNat(DigitAt(s, 1))
    ELSE IF k = 2 THEN BigFromNat(DigitAt(s, 1) * radix + DigitAt(s, 2))
    ELSE BigMulAdd(DigitsValue(s, radix, k - 3), radix * radix * radix,
                   (DigitAt(s, k - 2) * radix + DigitAt(s, k - 1)) * radix + DigitAt(s, k))

HasPrefix(s, lower, upper) ==
    Len(s) >= 2 /\ s[1] = "0" /\ (s[2] = lower \/ s[2] = upper)

NaN == [nan |-> TRUE, neg |-> FALSE, mag |-> BigZero]

\* parseInt of a text without leading white space whose sign is known
ParseUnsigned(neg, s2, radix) ==
    Let((radix = 0 \/ radix = 16) /\ HasPrefix(s2, "x", "X"), LAMBDA hex :
    Let(IF hex THEN 16 ELSE IF radix = 0 THEN 10 ELSE radix, LAMBDA r :
    Let(DigitPrefix(IF hex THEN Drop(s2, 2) ELSE s2, r), LAMBDA z :
        IF z = <<>> THEN NaN
        ELSE [nan |-> FALSE, neg |-> neg, mag |-> RoundDouble(DigitsValue(z, r, Len(z)))])))

\* parseInt(s, radix); radix 0 stands for an omitted radix
parseInt(s, radix) ==
    Let(TrimLeft(s), LAMBDA s1 :
        IF s1 # <<>> /\ (s1[1] = "-" \/ s1[1] = "+")
        THEN Let(Drop(s1, 1), LAMBDA s2 : ParseUnsigned(s1[1] = "-", s2, radix))
        ELSE ParseUnsigned(FALSE, s1, radix))

\* BigInt(t) for a trimmed, non-empty text t in the given radix
BigIntOfDigits(t, radix) ==
    Let(radix = 10 /\ (t[1] = "-" \/ t[1] = "+"), LAMBDA signed :
    Let(IF radix # 10 THEN Drop(t, 2) ELSE IF signed THEN Drop(t, 1) ELSE t, LAMBDA digits :
        IF digits = <<>> \/ \E i \in 1..Len(digits) : CharVal(digits[i]) >= radix
        THEN [err |-> TRUE, neg |-> FALSE, mag |-> BigZero]
        ELSE [err |-> FALSE, neg |-> signed /\ t[1] = "-",
              mag |-> DigitsValue(digits, radix, Len(digits))]))

\* BigInt(s) for a string s: err stands for the SyntaxError it throws
BigIntOfString(s) ==
    Let(TrimRight(TrimLeft(s)), LAMBDA t :
        IF t = <<>> THEN [err |-> FALSE, neg |-> FALSE, mag |-> BigZero]
        ELSE BigIntOfDigits(t, IF HasPrefix(t, "x", "X") THEN 16
                               ELSE IF HasPrefix(t, "o", "O") THEN 8
                               ELSE IF HasPrefix(t, "b", "B") THEN 2
                               ELSE 10))

\* x < 0 for a signed value (minus zero is not below zero)
IsNegative(x) == x.neg /\ x.mag # BigZero

\* Number.prototype.toString() and toString(16) of an integer 0 <= n < 2^31
RECURSIVE NumText(_, _)
NumText(n, radix) ==
    IF n < radix THEN <<DigitChars[n + 1]>>
    ELSE NumText(n \div radix, radix) \o <<DigitChars[(n % radix) + 1]>>

\* Array.prototype.join(c)
RECURSIVE Join(_, _)
Join(parts, c) ==
    IF parts = <<>> THEN <<>>
    ELSE IF Len(parts) = 1 THEN parts[1]
    ELSE parts[1] \o <<c>> \o Join(Tail(parts), c)

(***************************************************************************)
(* isIP, isSubnet                                                          *)
(***************************************************************************)
\* if (isNaN(int)) return false; if (int < 0 || int > max) return false
NumberInRange(int, max) ==
    Let(int, LAMBDA x : ~x.nan /\ ~IsNegative(x) /\ BigLeq(x.mag, max))

checkV4(ip) ==
    Let(Split(ip, "."), LAMBDA segments :
        IF Len(segments) > 4 THEN FALSE
        ELSE IF Len(segments) > 1
        THEN \A k \in 1..Len(segments) :
                NumberInRange(parseInt(segments[k], 0), BigFromNat(255))
        ELSE NumberInRange(parseInt(ip, 0), MAX_IPV4_LONG))

\* the loop of isIP over the colon-separated segments: -1 when it returns
\* false, else the number of empty segments seen
RECURSIVE V6SegmentLoop(_, _, _)
V6SegmentLoop(segments, k, doubleSegments) ==
    IF k > Len(segments) THEN doubleSegments
    ELSE IF doubleSegments > 1 THEN -1
    ELSE IF segments[k] = <<>> THEN V6SegmentLoop(segments, k + 1, doubleSegments + 1)
    ELSE IF ~NumberInRange(parseInt(segments[k], 16), BigFromNat(65535)) THEN -1
    ELSE V6SegmentLoop(segments, k + 1, doubleSegments)

\* try { const int = BigInt(ip); if (int < 0 || int > MAX_IPV6_LONG) return false }
\* catch { return false }
BigIntInRange(int) ==
    Let(int, LAMBDA x : ~x.err /\ ~IsNegative(x) /\ BigLeq(x.mag, MAX_IPV6_LONG))

checkV6(ip) ==
    Let(Split(ip, ":"), LAMBDA split :
        IF Len(split) > 8 \/ Len(split) = 2 THEN FALSE
        ELSE IF Len(split) > 1
        THEN Let(IF split[1] = <<>> THEN Tail(split) ELSE split, LAMBDA segments :
             Let(V6SegmentLoop(segments, 1, 0), LAMBDA doubleSegments :
                 /\ doubleSegments # -1
                 /\ ~(doubleSegments = 0 /\ Len(segments) # 8)))
        ELSE BigIntInRange(BigIntOfString(ip)))

\* a check that takes either version whatever is wanted
isIPAnyVersion(ip, type) ==
    Let(ip, LAMBDA t :
        IF ~StrIncludes(t, ":") /\ checkV4(t) THEN "v4"
        ELSE IF checkV6(t) THEN "v6" ELSE "false")

\* isIP(ip, type): "v4", "v6" or "false"
isIP(ip, type) ==
    Let(ip, LAMBDA t :
        IF type # "v6" /\ ~StrIncludes(t, ":") /\ checkV4(t) THEN "v4"
        ELSE IF type # "v4" THEN (IF checkV6(t) THEN "v6" ELSE "false")
        ELSE "false")

\* const [ content, mask ] = ip.split('/'); a missing mask (undefined) and
\* the empty mask are both falsy
CidrContent(ip) == Split(ip, "/")[1]
CidrHasMask(ip) == Let(Split(ip, "/"), LAMBDA parts : Len(parts) >= 2 /\ parts[2] # <<>>)
CidrMask(ip) == Split(ip, "/")[2]

\* a mask test that takes any prefix
MaskInRangeAny(ip, limit) == CidrHasMask(ip)

\* the mask test of isSubnet: the text after '/' parses to an integer in 0..limit
MaskInRange(ip, limit) ==
    CidrHasMask(ip) /\ NumberInRange(parseInt(CidrMask(ip), 0), BigFromNat(limit))

\* the second block of isSubnet
isSubnetV6(ip, type) ==
    IF type # "v4"
    THEN (IF ~MaskInRange(ip, 128) THEN "false" ELSE isIP(CidrContent(ip), "v6"))
    ELSE "false"

\* isSubnet(ip, type): "v4", "v6" or "false"
isSubnet(ip, type) ==
    Let(ip, LAMBDA t :
        IF type # "v6" /\ ~StrIncludes(t, ":")
        THEN IF ~MaskInRange(t, 32) THEN "false"
             ELSE Let(isIP(CidrContent(t), "v4"), LAMBDA result :
                      IF result # "false" THEN result ELSE isSubnetV6(t, type))
        ELSE isSubnetV6(t, type))

\* a try block whose exceptions all leave it
Uncaught(e) == e

\* try { ... } catch { return false }: the exception that leaves the
\* statement when e is thrown inside it ("none": no exception)
Caught(e) == "none"

\* the exception that leaves isIP(ip, type): BigInt(ip) throws a SyntaxError
\* inside the try block when the call gets there and ip is no integer text
isIPThrows(ip, type) ==
    Let(ip, LAMBDA t :
        IF /\ ~(type # "v6" /\ ~StrIncludes(t, ":") /\ checkV4(t))
           /\ type # "v4"
           /\ Len(Split(t, ":")) = 1
           /\ BigIntOfString(t).err
        THEN Caught("SyntaxError") ELSE "none")

\* the exception that leaves isSubnet(ip, type): one that left a call of isIP
isSubnetThrows(ip, type) ==
    Let(ip, LAMBDA t :
        IF type # "v6" /\ ~StrIncludes(t, ":")
        THEN IF ~MaskInRange(t, 32) THEN "none"
             ELSE IF isIPThrows(CidrContent(t), "v4") # "none"
                  THEN isIPThrows(CidrContent(t), "v4")
             ELSE IF isIP(CidrContent(t), "v4") # "false" THEN "none"
             ELSE IF type # "v4" /\ MaskInRange(t, 128)
                  THEN isIPThrows(CidrContent(t), "v6") ELSE "none"
        ELSE IF type # "v4" /\ MaskInRange(t, 128)
             THEN isIPThrows(CidrContent(t), "v6") ELSE "none")


(***************************************************************************)
(* 32-bit and element-wide integer operations                              *)
(***************************************************************************)
RECURSIVE BitAnd(_, _)
BitAnd(a, b) ==
    Let2(a, b, LAMBDA x, y :
        IF x = 0 \/ y = 0 THEN 0
        ELSE (x % 2) * (y % 2) + 2 * BitAnd(x \div 2, y \div 2))

\* ToInt32 of an integer-valued number [neg, mag]
ToInt32(x) ==
    LET lo == x.mag[1]
        hi == x.mag[2]
        s  == IF hi >= 32768 THEN (hi - 65536) * 65536 + lo ELSE hi * 65536 + lo
    IN  IF x.nan THEN 0
        ELSE IF x.neg /\ s # -2147483647 - 1 THEN -s ELSE s

\* (x >> shift) & 0xFF on a number
ShrAnd255(x, shift) == (ToInt32(x) \div Pow2Small(shift)) % 256

\* b << shift on an element value, as a signed 32-bit integer
Shl32(b, shift) ==
    LET wrapped == b % Pow2Small(32 - shift)
    IN  IF wrapped >= Pow2Small(31 - shift)
        THEN (wrapped - Pow2Small(32 - shift)) * Pow2Small(shift)
        ELSE wrapped * Pow2Small(shift)

\* x >>> 0 on a signed 32-bit integer, as a wide integer
Shr0(x) == [k \in 1..NL |-> IF k = 1 THEN x % Base
                             ELSE IF k = 2 THEN (x \div Base) % Base ELSE 0]

\* what a store into a Uint8Array / Uint16Array element keeps of a number
ElemMax(type) == IF type = 4 THEN 255 ELSE 65535
ElemCount(type) == IF type = 4 THEN 4 ELSE 8
StoreElem(type, n) == n % (ElemMax(type) + 1)
StoreParsed(type, x) ==
    IF x.nan THEN 0
    ELSE IF x.neg THEN (ElemMax(type) + 1 - (x.mag[1] % (ElemMax(type) + 1))) % (ElemMax(type) + 1)
    ELSE x.mag[1] % (ElemMax(type) + 1)

Zeros(n) == [k \in 1..n |-> 0]

\* TypedArray.prototype.set(src) on a zeroed array of n elements; it throws a
\* RangeError when src is longer than the array
SetOverflows(n, src) == Len(src) > n
SetInto(n, src) == [k \in 1..n |-> IF k <= Len(src) THEN src[k] ELSE 0]

(***************************************************************************)
(* IPAddress: the constructor's results, by input form.  A result is       *)
(* [ok |-> TRUE, type, data] or [ok |-> FALSE, err].                        *)
(***************************************************************************)
Failed(msg) == [ok |-> FALSE, err |-> msg]
Built(type, data) == [ok |-> TRUE, type |-> type, data |-> data]

\* if (type && type !== v) throw new Error('Not Expected Type')
TypeMismatch(type, v) == type # 0 /\ type # v

\* new Uint16Array([ (ip >> 112) & 0xFFFF, ..., ip & 0xFFFF ])
GroupsOfBig(b) == [k \in 1..8 |-> BigLow16(BigShr(b, 16 * (8 - k)))]

\* new Uint8Array([ (ip >> 24) & 0xFF, ..., ip & 0xFF ])
OctetsOfNumber(x) == [k \in 1..4 |-> ShrAnd255(x, 8 * (4 - k))]

\* an IPv4 text parser that puts the segments it finds first and fills up
\* with zeros
IPFromV4TextLeftAligned(ip, type) ==
    Let(Split(ip, "."), LAMBDA segments :
        Built(4, SetInto(4, [k \in 1..Len(segments) |->
                                StoreParsed(4, parseInt(segments[k], 0))])))

IPFromV4Text(ip, type) ==
    Let(Split(ip, "."), LAMBDA segments :
    Let([k \in 1..Len(segments) |-> parseInt(segments[k], 0)], LAMBDA ints :
    Let([k \in 1..Len(ints) |-> StoreParsed(4, ints[k])], LAMBDA stored :
        IF TypeMismatch(type, 4) THEN Failed("Not Expected Type")
        ELSE IF Len(ints) = 4 \/ Len(ints) = 3 THEN Built(4, SetInto(4, stored))
        ELSE IF Len(ints) = 2 THEN Built(4, <<stored[1], 0, 0, stored[2]>>)
        ELSE IF Len(ints) = 1 THEN Built(4, OctetsOfNumber(ints[1]))
        ELSE Failed("Int Length Invalid"))))

\* this.rawData.set(start.concat(Array.from({ length: 8 - (start.length +
\* end.length) }, () => 0)).concat(end)); ints holds -1 for false
SpreadAt(ints, doubleIx) ==
    Let2(SubSeq(ints, 1, doubleIx - 1), SubSeq(ints, doubleIx + 1, Len(ints)),
         LAMBDA start, end :
            start \o Zeros(IF Len(start) + Len(end) >= 8 THEN 0
                           ELSE 8 - (Len(start) + Len(end))) \o end)

\* the rawData.set of the segmented IPv6 form; ints holds -1 for false
IPFromV6Ints(ints) ==
    Let({k \in 1..Len(ints) : ints[k] = -1}, LAMBDA holes :
    Let(IF holes = {} THEN ints ELSE SpreadAt(ints, Min(holes)), LAMBDA src :
    Let([k \in 1..Len(src) |-> IF src[k] = -1 THEN 0 ELSE src[k]], LAMBDA numbers :
        IF SetOverflows(8, numbers) THEN Failed("RangeError")
        ELSE Built(6, SetInto(8, numbers)))))

\* const int = BigInt(segments[0]) and the eight groups taken from it
IPFromV6Long(text) ==
    Let(BigIntOfString(text), LAMBDA int :
        IF int.err THEN Failed("SyntaxError") ELSE Built(6, GroupsOfBig(int.mag)))

IPFromV6Text(ip, type) ==
    Let(Split(ip, ":"), LAMBDA split :
    Let(IF split[1] = <<>> THEN Tail(split) ELSE split, LAMBDA segments :
        IF TypeMismatch(type, 6) THEN Failed("Not Expected Type")
        ELSE IF Len(segments) > 1
        THEN IPFromV6Ints([k \in 1..Len(segments) |->
                              IF segments[k] = <<>> THEN -1
                              ELSE StoreParsed(6, parseInt(segments[k], 16))])
        ELSE IF segments = <<>> THEN Failed("TypeError")
        ELSE IPFromV6Long(segments[1])))

\* new IPAddress(ip: string, type)
IPFromText(ip, type) ==
    Let2(ip, isIP(ip, "v6 | v4"), LAMBDA t, is :
        IF is = "false" THEN Failed("Invalid IP")
        ELSE IF is = "v4" THEN IPFromV4Text(t, type)
        ELSE IPFromV6Text(t, type))

\* new IPAddress(ip: number, type); the number is [nan, neg, mag]
IPFromNumber(ip, type) ==
    IF ~ip.nan /\ ((~ip.neg /\ BigLess(MAX_IPV4_LONG, ip.mag)) \/ IsNegative(ip))
    THEN Failed("Invalid IP")
    ELSE Built(4, OctetsOfNumber(ip))

\* a bigint constructor without the range test
IPFromBigIntAnySize(ip, type) == Built(6, GroupsOfBig(ip.mag))

\* new IPAddress(ip: bigint, type); the bigint is [neg, mag]
IPFromBigInt(ip, type) ==
    IF (~ip.neg /\ BigLess(MAX_IPV6_LONG, ip.mag)) \/ IsNegative(ip)
    THEN Failed("Invalid IP")
    ELSE Built(6, GroupsOfBig(ip.mag))

\* new IPAddress(ip: Uint8Array | Uint16Array, type); the array is [w, data]
\* and the address keeps the caller's array itself
IPFromBytes(ip, type) ==
    LET v == IF ip.w = 8 THEN 4 ELSE 6
    IN  IF TypeMismatch(type, v) THEN Failed("Not Expected Type")
        ELSE IF Len(ip.data) # ElemCount(v) THEN Failed("Invalid IP")
        ELSE Built(v, ip.data)

\* new IPAddress(ip: IPAddress, type); the source is [type, data]
IPFromCopy(ip, type) ==
    IF TypeMismatch(type, ip.type) THEN Failed("Not Expected Type")
    ELSE Built(ip.type, ip.data)

(***************************************************************************)
(* IPAddress: int, equals                                                  *)
(***************************************************************************)
\* IPAddress.int() of an address with the given type and rawData
IPInt(type, data) ==
    IF type = 4
    THEN Shr0(Shl32(data[1], 24) + Shl32(data[2], 16) + Shl32(data[3], 8) + data[4])
    ELSE [k \in 1..NL |-> IF k <= 8 THEN data[9 - k] ELSE 0]

IPEquals(a, b) ==
    /\ a.type = b.type
    /\ \A k \in 1..ElemCount(a.type) : a.data[k] = b.data[k]

(***************************************************************************)
(* IPAddress: long, short, usual                                           *)
(***************************************************************************)
\* String.prototype.padStart(n, c)
PadStart(s, n, c) == [k \in 1..(IF Len(s) >= n THEN 0 ELSE n - Len(s)) |-> c] \o s

\* IPAddress.long()
IPLong(type, data) ==
    IF type = 4
    THEN Join([k \in 1..Len(data) |-> NumText(data[k], 10)], ".")
    ELSE Join([k \in 1..Len(data) |-> PadStart(NumText(data[k], 16), 4, "0")], ":")

\* the loop of short() over the groups from group k on: ip is the text so
\* far, doubleIx whether a zero group has been met
RECURSIVE ShortLoop(_, _, _, _)
ShortLoop(data, k, ip, doubleIx) ==
    Let2(ip, doubleIx, LAMBDA text, met :
        IF k > Len(data) THEN text
        ELSE IF data[k] = 0
        THEN ShortLoop(data, k + 1,
                       IF met THEN text
                       ELSE text \o (IF text # <<>> /\ data[8] # 0 THEN <<":">>
                                     ELSE <<":", ":">>),
                       TRUE)
        ELSE ShortLoop(data, k + 1, text \o <<":">> \o NumText(data[k], 16), met))

\* IPAddress.short()
IPShort(type, data) ==
    IF type = 4
    THEN IF data[2] = 0 /\ data[3] = 0 /\ data[4] = 0 THEN NumText(data[1], 10)
         ELSE IF data[2] = 0 /\ data[3] = 0
              THEN NumText(data[1], 10) \o <<".">> \o NumText(data[4], 10)
         ELSE IF data[3] = 0 /\ data[4] = 0
              THEN NumText(data[1], 10) \o <<".">> \o NumText(data[2], 10)
         ELSE IF data[4] = 0
              THEN NumText(data[1], 10) \o <<".">> \o NumText(data[2], 10)
                     \o <<".">> \o NumText(data[3], 10)
         ELSE Join([k \in 1..Len(data) |-> NumText(data[k], 10)], ".")
    ELSE Let(Drop(ShortLoop(data, 1, <<>>, FALSE), 1), LAMBDA ip :
             IF Len(ip) = 1 THEN <<":", ":">> ELSE ip)

\* IPAddress.usual()
IPUsual(type, data) == IF type = 4 THEN IPLong(type, data) ELSE IPShort(type, data)

(***************************************************************************)
(* Subnet: mask, last, size, includes, iterator step                       *)
(***************************************************************************)
\* the loop that fills subnetmask: element i of n, `netmask` bits left
RECURSIVE SubnetMaskFrom(_, _, _, _)
SubnetMaskFrom(type, i, n, netmask) ==
    IF i > n THEN <<>>
    ELSE IF netmask > 0
    THEN LET w    == IF type = 4 THEN 8 ELSE 16
             bits == IF netmask > w THEN w ELSE netmask
         IN  <<StoreElem(type, (Pow2Small(bits) - 1) * Pow2Small(w - bits))>>
             \o SubnetMaskFrom(type, i + 1, n, netmask - bits)
    ELSE <<0>> \o SubnetMaskFrom(type, i + 1, n, netmask)

SubnetMask(type, netmask) == SubnetMaskFrom(type, 1, ElemCount(type), netmask)

\* a constructor that keeps the address as given
MaskedBaseAsGiven(data, subnetmask) == data

\* this.iFirst.rawData[i] &= subnetmask[i]
MaskedBase(data, subnetmask) ==
    [k \in 1..Len(data) |-> BitAnd(data[k], IF k <= Len(subnetmask) THEN subnetmask[k] ELSE 0)]

\* a last() that forgets the base
LastDataHostOnly(type, subnetmask, first) ==
    [k \in 1..ElemCount(type) |-> StoreElem(type, ElemMax(type) - subnetmask[k])]

\* Subnet.last(): the rawData of the address it returns
LastData(type, subnetmask, first) ==
    [k \in 1..ElemCount(type) |-> StoreElem(type, ElemMax(type) - subnetmask[k] + first[k])]

\* a size() that leaves one address out
SubnetSizeLessOne(type, netmask) ==
    BigSub(BigPow2((IF type = 4 THEN 32 ELSE 128) - netmask), BigFromNat(1))

\* Subnet.size()
SubnetSize(type, netmask) == BigPow2((IF type = 4 THEN 32 ELSE 128) - netmask)

\* the carry loop of next(): element j downward, `overflow` still to add
RECURSIVE IterAddFrom(_, _, _, _)
IterAddFrom(type, ip, j, overflow) ==
    IF j < 1 \/ overflow = BigZero THEN ip
    ELSE Let(RoundDouble(BigAdd(BigFromNat(ip[j]), RoundDouble(overflow))), LAMBDA sum :
         Let2([ip EXCEPT ![j] = sum[1] % (ElemMax(type) + 1)],
              BigShr(sum, IF type = 4 THEN 8 ELSE 16),
              LAMBDA stored, rest : IterAddFrom(type, stored, j - 1, rest)))

\* the rawData of the address next() yields at cursor i
IterData(type, first, i) == Let2(first, i, LAMBDA f, n : IterAddFrom(type, f, ElemCount(type), n))

\* the loop of includes() from target k on; a target is [sub, type, lo, hi],
\* lo and hi the rawData of the address itself for an IPAddress, of first()
\* and last() for a Subnet
RECURSIVE IncludesFrom(_, _, _, _, _)
IncludesFrom(type, fInt, lInt, targets, k) ==
    IF k > Len(targets) THEN TRUE
    ELSE LET ip == targets[k]
         IN  IF (type = 4) # (ip.type = 4) THEN FALSE
             ELSE IF BigLess(IPInt(ip.type, ip.lo), fInt) THEN FALSE
             ELSE IF BigLess(lInt, IPInt(ip.type, ip.hi)) THEN FALSE
             ELSE IncludesFrom(type, fInt, lInt, targets, k + 1)

\* an includes() that compares with first() only
IncludesLowOnly(type, subnetmask, first, targets) ==
    IncludesFrom(type, IPInt(type, first), BigPow2(128), targets, 1)

\* Subnet.includes(...targets) of a subnet with the given type, subnetmask
\* and base rawData
Includes(type, subnetmask, first, targets) ==
    Let2(IPInt(type, first), IPInt(type, LastData(type, subnetmask, first)),
         LAMBDA fInt, lInt :
            Let(targets, LAMBDA ts : IncludesFrom(type, fInt, lInt, ts, 1)))

\* new Subnet(subnet: string, type): [ok |-> TRUE, type, netmask, data,
\* subnetmask] with data the masked rawData of the base, or [ok |-> FALSE, err]
SubnetFromText(subnet, type) ==
    Let2(subnet, isSubnet(subnet, "v6 | v4"), LAMBDA t, is :
        IF is = "false" THEN Failed("Invalid Subnet")
        ELSE IF TypeMismatch(type, IF is = "v4" THEN 4 ELSE 6) THEN Failed("Not Expected Type")
        ELSE Let2(parseInt(CidrMask(t), 0).mag[1], IPFromText(CidrContent(t), 0),
                  LAMBDA netmask, iFirst :
                    IF ~iFirst.ok THEN iFirst
                    ELSE Let(SubnetMask(IF is = "v4" THEN 4 ELSE 6, netmask), LAMBDA mask :
                             [ok |-> TRUE, type |-> IF is = "v4" THEN 4 ELSE 6,
                              netmask |-> netmask,
                              data |-> MaskedBase(iFirst.data, mask),
                              subnetmask |-> mask])))

(***************************************************************************)
(* The heap and the operations on it                                       *)
(*   arrays[a]  = [w, data]            a Uint8Array (w = 8) or Uint16Array *)
(*   ips[i]     = [type, raw]          raw the index of rawData            *)
(*   subnets[s] = [type, netmask, iFirst, subnetmask]                      *)
(*   iters[k]   = [type, sub, first, size, i]   the closure of one         *)
(*                [Symbol.iterator]() call (sub: the subnet it came from)  *)
(*   ret        the outcome of the last call                               *)
(*   arg        the inputs the program has still to use                    *)
(* The operations below say what a call does to the heap and to ret; the   *)
(* specifications add what becomes of arg.                                 *)
(***************************************************************************)
RawData(i) == arrays[ips[i].raw].data
IPValue(i) == [type |-> ips[i].type, data |-> RawData(i)]
Base0(s) == RawData(subnets[s].iFirst)
Mask0(s) == arrays[subnets[s].subnetmask].data

ElemBits(type) == IF type = 4 THEN 8 ELSE 16

\* new Subnet(text, type)
NewSubnetText(subnet, type) ==
    \E r \in {SubnetFromText(subnet, type)} :
        IF ~r.ok
        THEN /\ ret' = [kind |-> "threw", op |-> "Subnet", err |-> r.err,
                        input |-> subnet, type |-> type]
             /\ UNCHANGED <<arrays, ips, subnets, iters>>
        ELSE /\ arrays' = arrays \o <<[w |-> ElemBits(r.type), data |-> r.data],
                                      [w |-> ElemBits(r.type), data |-> r.subnetmask]>>
             /\ ips' = Append(ips, [type |-> r.type, raw |-> Len(arrays) + 1])
             /\ subnets' = Append(subnets, [type |-> r.type, netmask |-> r.netmask,
                                            iFirst |-> Len(ips) + 1,
                                            subnetmask |-> Len(arrays) + 2])
             /\ ret' = [kind |-> "subnet", op |-> "Subnet", id |-> Len(subnets) + 1,
                        input |-> subnet, type |-> type]
             /\ UNCHANGED <<iters>>

\* new Subnet(subnets[s], type): the copy shares iFirst and subnetmask
NewSubnetCopy(s, type) ==
    IF TypeMismatch(type, subnets[s].type)
    THEN /\ ret' = [kind |-> "threw", op |-> "SubnetCopy", err |-> "Not Expected Type",
                    input |-> s, type |-> type]
         /\ UNCHANGED <<arrays, ips, subnets, iters>>
    ELSE /\ subnets' = Append(subnets, subnets[s])
         /\ ret' = [kind |-> "subnet", op |-> "SubnetCopy", id |-> Len(subnets) + 1,
                    input |-> s, type |-> type]
         /\ UNCHANGED <<arrays, ips, iters>>

\* the end of an IPAddress constructor that builds its own rawData
FinishIP(built, op, input, type) ==
    \E r \in {built} :
        IF ~r.ok
        THEN /\ ret' = [kind |-> "threw", op |-> op, err |-> r.err, input |-> input,
                        type |-> type]
             /\ UNCHANGED <<arrays, ips, subnets, iters>>
        ELSE /\ arrays' = Append(arrays, [w |-> ElemBits(r.type), data |-> r.data])
             /\ ips' = Append(ips, [type |-> r.type, raw |-> Len(arrays) + 1])
             /\ ret' = [kind |-> "ip", op |-> op, id |-> Len(ips) + 1, input |-> input,
                        type |-> type]
             /\ UNCHANGED <<subnets, iters>>

NewIPText(ip, type) == FinishIP(IPFromText(ip, type), "IPText", ip, type)
NewIPNumber(ip, type) == FinishIP(IPFromNumber(ip, type), "IPNumber", ip, type)
NewIPBigInt(ip, type) == FinishIP(IPFromBigInt(ip, type), "IPBigInt", ip, type)

\* new IPAddress(bytes, type): the caller's array is put on the heap and the
\* address, when built, refers to that very array
NewIPBytes(bytes, type) ==
    \E r \in {IPFromBytes(bytes, type)} :
        /\ arrays' = Append(arrays, bytes)
        /\ IF ~r.ok
           THEN /\ ret' = [kind |-> "threw", op |-> "IPBytes", err |-> r.err,
                           input |-> bytes, type |-> type]
                /\ UNCHANGED ips
           ELSE /\ ips' = Append(ips, [type |-> r.type, raw |-> Len(arrays) + 1])
                /\ ret' = [kind |-> "ip", op |-> "IPBytes", id |-> Len(ips) + 1,
                           input |-> bytes, type |-> type]
        /\ UNCHANGED <<subnets, iters>>

\* new IPAddress(ips[i], type): the copy shares rawData
NewIPCopy(i, type) ==
    \E r \in {IPFromCopy(IPValue(i), type)} :
        IF ~r.ok
        THEN /\ ret' = [kind |-> "threw", op |-> "IPCopy", err |-> r.err, input |-> i,
                        type |-> type]
             /\ UNCHANGED <<arrays, ips, subnets, iters>>
        ELSE /\ ips' = Append(ips, [type |-> r.type, raw |-> ips[i].raw])
             /\ ret' = [kind |-> "ip", op |-> "IPCopy", id |-> Len(ips) + 1, input |-> i,
                        type |-> type]
             /\ UNCHANGED <<arrays, subnets, iters>>

\* subnets[s].first()
First(s) ==
    /\ ret' = [kind |-> "first", op |-> "first", sub |-> s, id |-> subnets[s].iFirst]
    /\ UNCHANGED <<arrays, ips, subnets, iters>>

\* subnets[s].last(): a new address, kept here as the value [type, data]
Last(s) ==
    /\ ret' = [kind |-> "last", op |-> "last", sub |-> s, type |-> subnets[s].type,
               data |-> LastData(subnets[s].type, Mask0(s), Base0(s))]
    /\ UNCHANGED <<arrays, ips, subnets, iters>>

\* subnets[s].size()
Size(s) ==
    /\ ret' = [kind |-> "size", op |-> "size", sub |-> s,
               value |-> SubnetSize(subnets[s].type, subnets[s].netmask)]
    /\ UNCHANGED <<arrays, ips, subnets, iters>>

TargetOfIP(i) == [sub |-> FALSE, type |-> ips[i].type, lo |-> RawData(i), hi |-> RawData(i)]
TargetOfSubnet(s) ==
    [sub |-> TRUE, type |-> subnets[s].type, lo |-> Base0(s),
     hi |-> LastData(subnets[s].type, Mask0(s), Base0(s))]

\* subnets[s].includes(...targets); refs[k] is <<"ip", i>> or <<"subnet", t>>
IncludesCall(s, refs) ==
    \E targets \in {[k \in 1..Len(refs) |->
                        IF refs[k][1] = "ip" THEN TargetOfIP(refs[k][2])
                        ELSE TargetOfSubnet(refs[k][2])]} :
        /\ ret' = [kind |-> "includes", op |-> "includes", sub |-> s, refs |-> refs,
                   value |-> Includes(subnets[s].type, Mask0(s), Base0(s), targets)]
        /\ UNCHANGED <<arrays, ips, subnets, iters>>

\* subnets[s][Symbol.iterator](): a closure over iFirst, size() and i = 0
NewIterator(s) ==
    /\ iters' = Append(iters, [type |-> subnets[s].type, sub |-> s,
                               first |-> subnets[s].iFirst,
                               size |-> SubnetSize(subnets[s].type, subnets[s].netmask),
                               i |-> BigZero])
    /\ ret' = [kind |-> "iterator", op |-> "iterator", sub |-> s, id |-> Len(iters) + 1]
    /\ UNCHANGED <<arrays, ips, subnets>>

\* one cursor shared by all iterators
AdvanceAll(its, k) ==
    [j \in 1..Len(its) |-> [its[j] EXCEPT !.i = BigAdd(its[j].i, BigFromNat(1))]]

\* the cursors after iterator k has yielded
Advance(its, k) == [its EXCEPT ![k].i = BigAdd(its[k].i, BigFromNat(1))]

\* a next() that adds the cursor to the array of first() itself
WriteInPlace(arrs, raw, data) == [arrs EXCEPT ![raw].data = data]

\* the heap after next() has written the sums: they go into
\* ip = new Uint8Array(first.rawData), a copy that only the yielded address
\* holds, so that the array number raw of first() keeps its contents
WriteToCopy(arrs, raw, data) == arrs

\* an iterator that starts over once it has reported done
IterNextRestarting(k) ==
    \E it \in {iters[k]} :
        IF it.i = it.size
        THEN /\ iters' = [iters EXCEPT ![k].i = BigFromNat(0)]
             /\ ret' = [kind |-> "next", op |-> "next", iter |-> k, done |-> TRUE]
             /\ UNCHANGED <<arrays, ips, subnets>>
        ELSE \E data \in {IterData(it.type, RawData(it.first), it.i)} :
             /\ iters' = Advance(iters, k)
             /\ arrays' = WriteToCopy(arrays, ips[it.first].raw, data)
             /\ ret' = [kind |-> "next", op |-> "next", iter |-> k, done |-> FALSE,
                        type |-> it.type, data |-> data]
             /\ UNCHANGED <<ips, subnets>>

\* iters[k].next()
IterNext(k) ==
    \E it \in {iters[k]} :
        IF it.i = it.size
        THEN /\ ret' = [kind |-> "next", op |-> "next", iter |-> k, done |-> TRUE]
             /\ UNCHANGED <<arrays, ips, subnets, iters>>
        ELSE \E data \in {IterData(it.type, RawData(it.first), it.i)} :
             /\ iters' = Advance(iters, k)
             /\ arrays' = WriteToCopy(arrays, ips[it.first].raw, data)
             /\ ret' = [kind |-> "next", op |-> "next", iter |-> k, done |-> FALSE,
                        type |-> it.type, data |-> data]
             /\ UNCHANGED <<ips, subnets>>

\* subnets[s].includes(a) for the address a that the last next() yielded
IncludesYielded(s) ==
    /\ ret.kind = "next" /\ ~ret.done
    /\ ret' = [kind |-> "includes", op |-> "includesYielded", sub |-> s,
               iter |-> ret.iter, refs |-> <<>>,
               value |-> Includes(subnets[s].type, Mask0(s), Base0(s),
                                  <<[sub |-> FALSE, type |-> ret.type,
                                     lo |-> ret.data, hi |-> ret.data]>>)]
    /\ UNCHANGED <<arrays, ips, subnets, iters>>

\* ips[i].long(), ips[i].short(), ips[i].usual()
Long(i) ==
    /\ ret' = [kind |-> "text", op |-> "long", id |-> i,
               value |-> IPLong(ips[i].type, RawData(i))]
    /\ UNCHANGED <<arrays, ips, subnets, iters>>

Short(i) ==
    /\ ret' = [kind |-> "text", op |-> "short", id |-> i,
               value |-> IPShort(ips[i].type, RawData(i))]
    /\ UNCHANGED <<arrays, ips, subnets, iters>>

Usual(i) ==
    /\ ret' = [kind |-> "text", op |-> "usual", id |-> i,
               value |-> IPUsual(ips[i].type, RawData(i))]
    /\ UNCHANGED <<arrays, ips, subnets, iters>>

\* ips[i].int()
IntOf(i) ==
    /\ ret' = [kind |-> "int", op |-> "int", id |-> i,
               value |-> IPInt(ips[i].type, RawData(i))]
    /\ UNCHANGED <<arrays, ips, subnets, iters>>

\* ips[i].equals(ips[j])
Equals(i, j) ==
    /\ ret' = [kind |-> "bool", op |-> "equals", id |-> i, other |-> j,
               value |-> IPEquals(IPValue(i), IPValue(j))]
    /\ UNCHANGED <<arrays, ips, subnets, iters>>


(***************************************************************************)
(* Inputs                                                                  *)
(***************************************************************************)
Types == {0, 4, 6}

\* the decimal text of an integer
IntText(n) == IF n < 0 THEN <<"-">> \o NumText(-n, 10) ELSE NumText(n, 10)

\* the part of a CIDR text after the address: nothing at all (p = -3), a bare
\* "/" (p = -2), else "/" and the decimal prefix p
MaskText(p) == IF p = -3 THEN <<>> ELSE IF p = -2 THEN <<"/">> ELSE <<"/">> \o IntText(p)

MaxPrefix == 129
Prefixes == (-3)..MaxPrefix

\* address texts, each with the IP version it denotes (0: not an address)
AddrSamples ==
    { [ver |-> 4, text |-> <<"2", "5", "5", ".", "2", "5", "5", ".", "2", "5", "5", ".", "2", "5", "5">>],
      [ver |-> 4, text |-> <<"1", "2", "7", ".", "0", ".", "0", ".", "1">>],
      [ver |-> 4, text |-> <<"1", "0", ".", "1">>],
      [ver |-> 4, text |-> <<"1", "9", "2", ".", "1", "6", "8", ".", "3">>],
      [ver |-> 4, text |-> <<"3", "2", "3", "2", "2", "3", "6", "0", "3", "3">>],
      [ver |-> 4, text |-> <<"0">>],
      [ver |-> 6, text |-> <<"f", "f", "f", "f", ":", "f", "f", "f", "f", ":", "f", "f", "f", "f", ":", "f", "f", "f", "f", ":", "f", "f", "f", "f", ":", "f", "f", "f", "f", ":", "f", "f", "f", "f", ":", "f", "f", "f", "f">>],
      [ver |-> 6, text |-> <<":", ":", "1">>],
      [ver |-> 6, text |-> <<"f", "e", "8", "0", ":", ":", "1", ":", "2">>],
      [ver |-> 6, text |-> <<"2", "0", "0", "1", ":", "d", "b", "8", ":", ":">>],
      [ver |-> 6, text |-> <<"4", "2", "9", "4", "9", "6", "7", "2", "9", "6">>],
      [ver |-> 6, text |-> <<"3", "4", "0", "2", "8", "2", "3", "6", "6", "9", "2", "0", "9", "3", "8", "4", "6", "3", "4", "6", "3", "3", "7", "4", "6", "0", "7", "4", "3", "1", "7", "6", "8", "2", "1", "1", "4", "5", "5">>],
      [ver |-> 0, text |-> <<"2", "5", "6", ".", "1", ".", "1", ".", "1">>],
      [ver |-> 0, text |-> <<"1", ".", "2", ".", "3", ".", "4", ".", "5">>],
      [ver |-> 0, text |-> <<"1", ":", "2">>],
      [ver |-> 0, text |-> <<"1", "2", "3", "4", "5", ":", ":">>],
      [ver |-> 0, text |-> <<"3", "4", "0", "2", "8", "2", "3", "6", "6", "9", "2", "0", "9", "3", "8", "4", "6", "3", "4", "6", "3", "3", "7", "4", "6", "0", "7", "4", "3", "1", "7", "6", "8", "2", "1", "1", "4", "5", "6">>] }


(***************************************************************************)
(* Spec: a program that builds two subnets and an address from text, asks  *)
(* includes(), and walks the subnets with several iterators                *)
(***************************************************************************)
\* the CIDR texts the program builds subnets from
Cidrs ==
    { <<"1", "0", ".", "1", ".", "2", ".", "3", "/", "3", "0">>,
      <<"1", "0", ".", "1", ".", "2", ".", "0", "/", "2", "4">>,
      <<"f", "e", "8", "0", ":", ":", "1", "/", "1", "2", "7">>,
      <<":", ":", "/", "0">> }

\* the address texts the program builds addresses from
Addrs ==
    { <<"1", "0", ".", "1", ".", "2", ".", "1">>,
      <<"f", "e", "8", "0", ":", ":", "3">> }

MaxIters == 2
MaxIterBits == 2
MaxTargets == 2

SubnetInput(text, type) == [form |-> "subnet", text |-> text, type |-> type]
IPTextInput(text, type) == [form |-> "ip", text |-> text, type |-> type]

\* what the program builds, in order
Scripts ==
    {<<SubnetInput(c1, 0), SubnetInput(c2, 0), IPTextInput(a, 0)>> :
        c1 \in Cidrs, c2 \in Cidrs, a \in Addrs}

Init == /\ arrays = <<>>
        /\ ips = <<>>
        /\ subnets = <<>>
        /\ iters = <<>>
        /\ ret = [kind |-> "none", op |-> "none"]
        /\ NoQueue
        /\ arg \in Scripts

\* the next constructor call of the script
BuildSubnet ==
    /\ arg # <<>> /\ arg[1].form = "subnet" /\ iters = <<>>
    /\ NewSubnetText(arg[1].text, arg[1].type)
    /\ arg' = Tail(arg)
    /\ UNCHANGED <<queue, env>>

BuildIP ==
    /\ arg # <<>> /\ arg[1].form = "ip" /\ iters = <<>>
    /\ NewIPText(arg[1].text, arg[1].type)
    /\ arg' = Tail(arg)
    /\ UNCHANGED <<queue, env>>

\* the objects includes() can be given
Refs == {<<"ip", i>> : i \in 1..Len(ips)} \cup {<<"subnet", s>> : s \in 1..Len(subnets)}
RefSeqs == UNION {[1..n -> Refs] : n \in 0..MaxTargets}

Iterable(s) == BigLeq(SubnetSize(subnets[s].type, subnets[s].netmask), BigPow2(MaxIterBits))

\* a read is asked of every heap the program reaches, once: what it returns
\* does not depend on the call before it
Settled == ret.kind \in {"none", "subnet", "ip", "threw", "iterator", "next"}

CallFirst == \E s \in 1..Len(subnets) : Settled /\ First(s) /\ UNCHANGED <<arg, queue, env>>
CallLast == \E s \in 1..Len(subnets) : Settled /\ Last(s) /\ UNCHANGED <<arg, queue, env>>
CallSize == \E s \in 1..Len(subnets) : Settled /\ Size(s) /\ UNCHANGED <<arg, queue, env>>
CallIncludes ==
    \E s \in 1..Len(subnets), refs \in RefSeqs :
        Settled /\ iters = <<>> /\ IncludesCall(s, refs) /\ UNCHANGED <<arg, queue, env>>
CallIterator ==
    \E s \in 1..Len(subnets) :
        /\ arg = <<>> /\ Len(iters) < MaxIters /\ Iterable(s)
        /\ NewIterator(s) /\ UNCHANGED <<arg, queue, env>>
CallNext == \E k \in 1..Len(iters) : IterNext(k) /\ UNCHANGED <<arg, queue, env>>
CallIncludesYielded == \E s \in 1..Len(subnets) : IncludesYielded(s) /\ UNCHANGED <<arg, queue, env>>

Next ==
    \/ BuildSubnet
    \/ BuildIP
    \/ CallFirst
    \/ CallLast
    \/ CallSize
    \/ CallIncludes
    \/ CallIterator
    \/ CallNext
    \/ CallIncludesYielded

Spec == Init /\ [][Next]_vars

(***************************************************************************)
(* SpecBuild: a program that makes one constructor call on an input of any *)
(* accepted form, then copies what it built and reads the subnet           *)
(***************************************************************************)
MaxCopies == 1

Num(neg, mag) == [nan |-> FALSE, neg |-> neg, mag |-> mag]

\* number inputs: 5, 192.168.2.1 as a long, 2^32 - 1, 2^32, -1
Numbers ==
    { Num(FALSE, BigFromNat(5)),
      Num(FALSE, [k \in 1..NL |-> IF k = 1 THEN 513 ELSE IF k = 2 THEN 49320 ELSE 0]),
      Num(FALSE, MAX_IPV4_LONG),
      Num(FALSE, BigPow2(32)),
      Num(TRUE, BigFromNat(1)) }

\* bigint inputs: 5, 2^64 + 1, 2^128 - 1, 2^128, -1
BigInts ==
    { [neg |-> FALSE, mag |-> BigFromNat(5)],
      [neg |-> FALSE, mag |-> BigAdd(BigPow2(64), BigFromNat(1))],
      [neg |-> FALSE, mag |-> MAX_IPV6_LONG],
      [neg |-> FALSE, mag |-> BigPow2(128)],
      [neg |-> TRUE, mag |-> BigFromNat(1)] }

\* typed-array inputs, of the right and of a wrong length
ByteArrays ==
    { [w |-> 8, data |-> <<10, 1, 2, 3>>],
      [w |-> 8, data |-> <<10, 1, 2>>],
      [w |-> 16, data |-> <<65152, 0, 0, 0, 0, 0, 0, 1>>],
      [w |-> 16, data |-> <<1, 2, 3, 4>>] }

\* one constructor call: its form, the value given, the expected version
\* `type` given (0: none) and the version `ver` the value denotes (0: none);
\* a CIDR text is an address text and the text of the prefix p
SubnetInputs ==
    {[form |-> "subnet", ver |-> a.ver, p |-> p, addr |-> a.text,
      value |-> a.text \o MaskText(p), type |-> type] :
        a \in AddrSamples, p \in Prefixes, type \in Types}
TextInputs ==
    {[form |-> "text", ver |-> a.ver, value |-> a.text, type |-> type] :
        a \in AddrSamples, type \in Types}
NumberInputs ==
    {[form |-> "number", ver |-> 4, value |-> n, type |-> type] :
        n \in Numbers, type \in Types}
BigIntInputs ==
    {[form |-> "bigint", ver |-> 6, value |-> n, type |-> type] :
        n \in BigInts, type \in Types}
ByteInputs ==
    {[form |-> "bytes", ver |-> IF b.w = 8 THEN 4 ELSE 6, value |-> b, type |-> type] :
        b \in ByteArrays, type \in Types}

InitBuild ==
    /\ arrays = <<>>
    /\ ips = <<>>
    /\ subnets = <<>>
    /\ iters = <<>>
    /\ ret = [kind |-> "none", op |-> "none"]
    /\ NoQueue
    /\ \/ arg \in SubnetInputs
       \/ arg \in TextInputs
       \/ arg \in NumberInputs
       \/ arg \in BigIntInputs
       \/ arg \in ByteInputs

Fresh(form) == ret.kind = "none" /\ arg.form = form

ConstructSubnet == Fresh("subnet") /\ NewSubnetText(arg.value, arg.type) /\ UNCHANGED <<arg, queue, env>>
ConstructIPText == Fresh("text") /\ NewIPText(arg.value, arg.type) /\ UNCHANGED <<arg, queue, env>>
ConstructIPNumber == Fresh("number") /\ NewIPNumber(arg.value, arg.type) /\ UNCHANGED <<arg, queue, env>>
ConstructIPBigInt == Fresh("bigint") /\ NewIPBigInt(arg.value, arg.type) /\ UNCHANGED <<arg, queue, env>>
ConstructIPBytes == Fresh("bytes") /\ NewIPBytes(arg.value, arg.type) /\ UNCHANGED <<arg, queue, env>>

CopySubnet ==
    \E s \in 1..Len(subnets), type \in Types :
        Len(subnets) <= MaxCopies /\ NewSubnetCopy(s, type) /\ UNCHANGED <<arg, queue, env>>

CopyIP ==
    \E i \in 1..Len(ips), type \in Types :
        Len(ips) <= MaxCopies /\ subnets = <<>> /\ NewIPCopy(i, type) /\ UNCHANGED <<arg, queue, env>>

NextBuild ==
    \/ ConstructSubnet
    \/ ConstructIPText
    \/ ConstructIPNumber
    \/ ConstructIPBigInt
    \/ ConstructIPBytes
    \/ CopySubnet
    \/ CopyIP
    \/ CallFirst
    \/ CallLast
    \/ CallSize

SpecBuild == InitBuild /\ [][NextBuild]_vars

(***************************************************************************)
(* SpecAddress: a program that builds one address, from IPv4 text of one   *)
(* to four segments or from eight IPv6 groups, copies it, and asks for its *)
(* texts, its integer and whether it equals the copy                       *)
(***************************************************************************)
CallLong == \E i \in 1..Len(ips) : Settled /\ Long(i) /\ UNCHANGED <<arg, queue, env>>
CallShort == \E i \in 1..Len(ips) : Settled /\ Short(i) /\ UNCHANGED <<arg, queue, env>>
CallUsual == \E i \in 1..Len(ips) : Settled /\ Usual(i) /\ UNCHANGED <<arg, queue, env>>
CallInt == \E i \in 1..Len(ips) : Settled /\ IntOf(i) /\ UNCHANGED <<arg, queue, env>>
CallEquals == \E i, j \in 1..Len(ips) : Settled /\ Equals(i, j) /\ UNCHANGED <<arg, queue, env>>

\* the values of the segments of the IPv4 texts
Octets == {0, 1, 10, 127, 255}

\* the text a.b.c.d, a.b.c or a.d of the segment values
DottedText(segs) == Join([k \in 1..Len(segs) |-> IntText(segs[k])], ".")

\* the address a text of two to four segments stands for
OctetsOfSegments(segs) ==
    IF Len(segs) = 4 THEN segs
    ELSE IF Len(segs) = 3 THEN segs \o <<0>>
    ELSE <<segs[1], 0, 0, segs[2]>>

\* IPv4 texts of two to four segments, each with the address it stands for
DottedInputs ==
    {[form |-> "text", ver |-> 4, segs |-> Len(s), value |-> DottedText(s), type |-> 0,
      octets |-> OctetsOfSegments(s)] : s \in UNION {[1..n -> Octets] : n \in 2..4}}

\* IPv4 texts of one segment: the decimal text of the packed address a.b.c.d,
\* and the two texts 3232236033 (192.168.2.1) and 4294967295
PackedInputs ==
    {[form |-> "text", ver |-> 4, segs |-> 1,
      value |-> IntText(((o[1] * 256 + o[2]) * 256 + o[3]) * 256 + o[4]), type |-> 0,
      octets |-> o] : o \in {q \in [1..4 -> Octets] : q[1] <= 127}}
    \cup {[form |-> "text", ver |-> 4, segs |-> 1, type |-> 0,
           value |-> <<"3", "2", "3", "2", "2", "3", "6", "0", "3", "3">>,
           octets |-> <<192, 168, 2, 1>>],
          [form |-> "text", ver |-> 4, segs |-> 1, type |-> 0,
           value |-> <<"4", "2", "9", "4", "9", "6", "7", "2", "9", "5">>,
           octets |-> <<255, 255, 255, 255>>]}

\* IPv6 addresses as their eight groups: every pattern of zero and non-zero
\* groups, and some with other group values
GroupSamples ==
    [1..8 -> {0, 3512}]
    \cup {<<8193, 3512, 0, 0, 0, 0, 0, 1>>,
          <<65535, 65535, 65535, 65535, 65535, 65535, 65535, 65535>>,
          <<1, 0, 0, 0, 16, 0, 0, 256>>}

GroupInputs ==
    {[form |-> "bytes", ver |-> 6, value |-> [w |-> 16, data |-> g], type |-> 0] :
        g \in GroupSamples}

InitAddress ==
    /\ arrays = <<>>
    /\ ips = <<>>
    /\ subnets = <<>>
    /\ iters = <<>>
    /\ ret = [kind |-> "none", op |-> "none"]
    /\ NoQueue
    /\ \/ arg \in DottedInputs
       \/ arg \in PackedInputs
       \/ arg \in GroupInputs

NextAddress ==
    \/ ConstructIPText
    \/ ConstructIPBytes
    \/ CopyIP
    \/ CallLong
    \/ CallShort
    \/ CallUsual
    \/ CallInt
    \/ CallEquals

SpecAddress == InitAddress /\ [][NextAddress]_vars

(***************************************************************************)
(* SpecRoundTrip: a program that builds one address as SpecAddress does,   *)
(* asks for its short text and builds a second address from that text      *)
(***************************************************************************)
\* new IPAddress(x.short()), x.short() being the text just returned; the
\* result remembers x as its input
ParseShort ==
    /\ ret.op = "short" /\ Len(ips) <= MaxCopies
    /\ FinishIP(IPFromText(ret.value, 0), "IPShortText", ret.id, 0)
    /\ UNCHANGED <<arg, queue, env>>

NextRoundTrip ==
    \/ ConstructIPText
    \/ ConstructIPBytes
    \/ CallShort
    \/ ParseShort

SpecRoundTrip == InitAddress /\ [][NextRoundTrip]_vars

(***************************************************************************)
(* SpecAlias: a program that builds an address from its own byte array or  *)
(* a subnet from a CIDR text, copies it, asks for first(), and then writes *)
(* one element of an array it can reach: the array it gave to the          *)
(* constructor, the rawData of an address it holds, or the rawData of the  *)
(* address that first() returned                                           *)
(***************************************************************************)
\* the values the program writes
Written == {0, 1, 255}

AliasInputs == {[form |-> "subnet", value |-> c, type |-> 0] : c \in Cidrs}

InitAlias ==
    /\ arrays = <<>>
    /\ ips = <<>>
    /\ subnets = <<>>
    /\ iters = <<>>
    /\ ret = [kind |-> "none", op |-> "none"]
    /\ NoQueue
    /\ \/ arg \in ByteInputs
       \/ arg \in AliasInputs

\* array[k - 1] = v on the typed array arrays[a], reached through the
\* address ips[i] (0: through the caller's own reference)
WriteElement(a, i, via) ==
    \E k \in 1..Len(arrays[a].data), v \in Written :
        /\ arrays' = [arrays EXCEPT ![a].data[k] = v]
        /\ ret' = [kind |-> "write", op |-> "write", via |-> via, id |-> i, array |-> a]
        /\ UNCHANGED <<ips, subnets, iters>>

\* the program writes to the array it built an address from, to
\* x.rawData of an address x it holds, or to s.first().rawData
CallWrite ==
    /\ \/ ret.op = "IPBytes" /\ ret.kind = "ip" /\ WriteElement(ips[ret.id].raw, 0, "array")
       \/ \E i \in 1..Len(ips) :
             Settled /\ subnets = <<>> /\ WriteElement(ips[i].raw, i, "rawData")
       \/ ret.kind = "first" /\ WriteElement(ips[ret.id].raw, ret.id, "first")
    /\ UNCHANGED <<arg, queue, env>>

NextAlias ==
    \/ ConstructSubnet
    \/ ConstructIPBytes
    \/ CopySubnet
    \/ CopyIP
    \/ CallFirst
    \/ CallWrite

SpecAlias == InitAlias /\ [][NextAlias]_vars

(***************************************************************************)
(* SpecValidate: isIP and isSubnet asked about an address text and about   *)
(* the CIDR text made of it and a prefix                                   *)
(***************************************************************************)
Wanted == {"v4", "v6", "v6 | v4"}

ValidateInputs ==
    {[ver |-> a.ver, p |-> p, addr |-> a.text, cidr |-> a.text \o MaskText(p),
      wanted |-> w] : a \in AddrSamples, p \in Prefixes, w \in Wanted}

InitValidate ==
    /\ arrays = <<>>
    /\ ips = <<>>
    /\ subnets = <<>>
    /\ iters = <<>>
    /\ ret = [kind |-> "none", op |-> "none"]
    /\ NoQueue
    /\ arg \in ValidateInputs

\* what a call leaves behind: the exception it threw or the value it returned
Outcome(op, thrown, value) ==
    IF thrown # "none" THEN [kind |-> "threw", op |-> op, err |-> thrown]
    ELSE [kind |-> "value", op |-> op, value |-> value]

CallIsIP ==
    /\ ret.op # "isIP"
    /\ ret' = Outcome("isIP", isIPThrows(arg.addr, arg.wanted), isIP(arg.addr, arg.wanted))
    /\ UNCHANGED <<arrays, ips, subnets, iters, arg, queue, env>>

CallIsSubnet ==
    /\ ret.op # "isSubnet"
    /\ ret' = Outcome("isSubnet", isSubnetThrows(arg.cidr, arg.wanted),
                       isSubnet(arg.cidr, arg.wanted))
    /\ UNCHANGED <<arrays, ips, subnets, iters, arg, queue, env>>

NextValidate ==
    \/ CallIsIP
    \/ CallIsSubnet

SpecValidate == InitValidate /\ [][NextValidate]_vars

(***************************************************************************)
(* SpecGroups: isIP and isSubnet asked about colon-separated texts         *)
(***************************************************************************)
MaxGroups == 9

\* every text of two to MaxGroups groups, each group empty or "1"
GroupShapes == UNION {[1..n -> {<<>>, <<"1">>}] : n \in 2..MaxGroups}

\* colon-separated texts: the shapes above and some with other groups
ColonTexts ==
    {Join(g, ":") : g \in GroupShapes}
    \cup { <<"f", "f", "f", "f", ":", ":">>,
           <<"1", "0", "0", "0", "0", ":", ":">>,
           <<"F", "E", "8", "0", ":", ":", "1", ":", "2">>,
           <<"1", "z", ":", ":">>,
           <<"g", ":", ":">> }

ColonInputs ==
    {[addr |-> t, cidr |-> t \o MaskText(p), p |-> p, wanted |-> w] :
        t \in ColonTexts, p \in {-3, 64}, w \in Wanted}

InitGroups ==
    /\ arrays = <<>>
    /\ ips = <<>>
    /\ subnets = <<>>
    /\ iters = <<>>
    /\ ret = [kind |-> "none", op |-> "none"]
    /\ NoQueue
    /\ arg \in ColonInputs

SpecGroups == InitGroups /\ [][NextValidate]_vars

(***************************************************************************)
(* SpecProbe: one constructor call on a text, good or bad, with no version *)
(* expected                                                                *)
(***************************************************************************)
\* the address texts of the other specifications, the empty text and a blank
ProbeTexts == {a.text : a \in AddrSamples} \cup ColonTexts \cup {<<>>, <<" ">>}

ProbeInputs ==
    {[form |-> "text", value |-> t, type |-> 0] : t \in ProbeTexts}
    \cup {[form |-> "subnet", value |-> t \o MaskText(p), type |-> 0] :
            t \in ProbeTexts, p \in {-3, 24, 64}}

InitProbe ==
    /\ arrays = <<>>
    /\ ips = <<>>
    /\ subnets = <<>>
    /\ iters = <<>>
    /\ ret = [kind |-> "none", op |-> "none"]
    /\ NoQueue
    /\ arg \in ProbeInputs

NextProbe ==
    \/ ConstructIPText
    \/ ConstructSubnet

SpecProbe == InitProbe /\ [][NextProbe]_vars

(***************************************************************************)
(* SpecRead: a program that builds a subnet and an address and then calls  *)
(* the read operations of both, iterators included, in any order           *)
(***************************************************************************)
ReadScripts == {<<SubnetInput(c, 0), IPTextInput(a, 0)>> : c \in Cidrs, a \in Addrs}

InitRead ==
    /\ arrays = <<>>
    /\ ips = <<>>
    /\ subnets = <<>>
    /\ iters = <<>>
    /\ ret = [kind |-> "none", op |-> "none"]
    /\ NoQueue
    /\ arg \in ReadScripts

NextRead ==
    \/ BuildSubnet
    \/ BuildIP
    \/ CallFirst
    \/ CallLast
    \/ CallSize
    \/ CallIncludes
    \/ CallIterator
    \/ CallNext
    \/ CallLong
    \/ CallShort
    \/ CallUsual
    \/ CallInt
    \/ CallEquals

SpecRead == InitRead /\ [][NextRead]_vars

(***************************************************************************)
(* SpecLongWalk: an iterator over a large IPv6 subnet that has already     *)
(* yielded i addresses (every next() adds one to i, so every i up to       *)
(* size() is reached), followed for a few more steps                       *)
(***************************************************************************)
MinWalkBits == 52
MaxWalkBits == 55
MaxWalkBack == 4
MaxWalkSteps == 6

\* ::/64, ::/74, 2001:db8::/73
WalkCidrs ==
    { <<":", ":", "/", "6", "4">>,
      <<":", ":", "/", "7", "4">>,
      <<"2", "0", "0", "1", ":", "d", "b", "8", ":", ":", "/", "7", "3">> }

\* cursors just below a power of two
WalkCursors ==
    {BigSub(BigPow2(e), BigFromNat(d)) : e \in MinWalkBits..MaxWalkBits, d \in 1..MaxWalkBack}

\* the heap after new Subnet(c), one [Symbol.iterator]() call and n next() calls
InitLongWalk ==
    \E c \in WalkCidrs, n \in WalkCursors :
        \E r \in {SubnetFromText(c, 0)} :
            /\ r.ok
            /\ BigLeq(n, SubnetSize(r.type, r.netmask))
            /\ arrays = <<[w |-> ElemBits(r.type), data |-> r.data],
                          [w |-> ElemBits(r.type), data |-> r.subnetmask]>>
            /\ ips = <<[type |-> r.type, raw |-> 1]>>
            /\ subnets = <<[type |-> r.type, netmask |-> r.netmask, iFirst |-> 1,
                            subnetmask |-> 2]>>
            /\ iters = <<[type |-> r.type, sub |-> 1, first |-> 1,
                          size |-> SubnetSize(r.type, r.netmask), i |-> n]>>
            /\ ret = [kind |-> "none", op |-> "none"]
            /\ NoQueue
            /\ arg = MaxWalkSteps

WalkNext == arg > 0 /\ IterNext(1) /\ arg' = arg - 1 /\ UNCHANGED <<queue, env>>
WalkIncludes == IncludesYielded(1) /\ UNCHANGED <<arg, queue, env>>

NextLongWalk ==
    \/ WalkNext
    \/ WalkIncludes

SpecLongWalk == InitLongWalk /\ [][NextLongWalk]_vars

(***************************************************************************)
(* Queue (queue.ts).                                                       *)
(*   queue  the Queue object: nextRunScheduled, lastRun, queue (the        *)
(*          functions waiting), wait (options.wait), fnWaiters (one        *)
(*          [fn, callback] for every addAndWaitForFinish call not yet      *)
(*          settled), onFinish and onError ("unset", or what the callback  *)
(*          does when it is called: "returns" or "throws")                 *)
(*   env    what surrounds it: now (Date.now()), timers (the setTimeout    *)
(*          calls not yet fired, each with the time it is due), running    *)
(*          (the queued functions called and not yet settled), adds (the   *)
(*          add() and addAndWaitForFinish() calls so far); and, kept for   *)
(*          the properties, lastEnd (when a function last settled),        *)
(*          started (when one was last called) and prevEnd (lastEnd at     *)
(*          that call), -1: never; starts (the calls whose function was    *)
(*          called, in that order), empties (how often runNextQueueItem    *)
(*          found no function), log (the onFinish and onError calls),      *)
(*          promises (the promises of addAndWaitForFinish settled so far)  *)
(*          and outcome (the function that settled last, and how)          *)
(* A queued function is [fn, call]: fn says which function object it is,   *)
(* call is the number of the add() or addAndWaitForFinish() call that      *)
(* queued it. The code can only look at fn. The callback of a waiter is    *)
(* known by the call that made it.                                         *)
(* An operation takes the two as q and e and gives both back as [q, e].    *)
(***************************************************************************)
Infinity == 1000000

MaxWait == 2
MaxAdds == 3
MaxTime == 6
MaxFns == 2

\* Date.now() when the queue is made: far more than any wait
StartTime == MaxWait + 1

\* the function objects the callers have
Fns == 1..MaxFns

\* what a callback given to finish() or error() does when it is called
Callbacks == {"returns", "throws"}

\* new Queue({ wait })
NewQueue(wait) ==
    [nextRunScheduled |-> FALSE, lastRun |-> 0, queue |-> <<>>, wait |-> wait,
     fnWaiters |-> <<>>, onFinish |-> "unset", onError |-> "unset"]

\* finish(callback)
Finish(q, callback) == [q EXCEPT !.onFinish = callback]

\* error(callback)
Error(q, callback) == [q EXCEPT !.onError = callback]

\* setTimeout(() => this.runNextQueueItem(), delay)
SetTimeout(e, delay) == [e EXCEPT !.timers = Append(@, [due |-> e.now + delay])]

Without(s, k) == SubSeq(s, 1, k - 1) \o SubSeq(s, k + 1, Len(s))

\* a finally block that leaves the functions still queued to the next add()
FinallyNever(q, e) ==
    [q |-> [q EXCEPT !.nextRunScheduled = FALSE, !.lastRun = e.now], e |-> e]

\* a finally block that schedules the next run whether or not a function
\* is waiting
FinallyAlways(q, e) ==
    [q |-> [q EXCEPT !.nextRunScheduled = TRUE, !.lastRun = e.now],
     e |-> SetTimeout(e, q.wait)]

\* the finally block of runNextQueueItem
Finally(q, e) ==
    IF q.queue # <<>>
    THEN [q |-> [q EXCEPT !.nextRunScheduled = TRUE, !.lastRun = e.now],
          e |-> SetTimeout(e, q.wait)]
    ELSE [q |-> [q EXCEPT !.nextRunScheduled = FALSE, !.lastRun = e.now], e |-> e]

\* a runNextQueueItem that tells every outcome to onFinish
CallbackAlwaysFinish(type) == "onFinish"

\* the try block goes to onFinish, the catch block to onError
CallbackFor(type) == IF type = "resolve" THEN "onFinish" ELSE "onError"

\* if (this.onFinish) try { this.onFinish(item, result) } catch { }
\* and the same with onError: what the callback throws is dropped
CallCallback(q, e, item, type) ==
    IF q[CallbackFor(type)] = "unset" THEN e
    ELSE [e EXCEPT !.log = Append(@, [callback |-> CallbackFor(type),
                                      fn |-> item.fn, call |-> item.call,
                                      threw |-> q[CallbackFor(type)] = "throws"])]

\* this.fnWaiters.find(([ fn ]) => Object.is(fn, item)): the place of the
\* first waiter with this function, 0 if there is none
FindWaiter(q, item) ==
    IF \E k \in 1..Len(q.fnWaiters) : q.fnWaiters[k].fn = item.fn
    THEN CHOOSE k \in 1..Len(q.fnWaiters) :
            /\ q.fnWaiters[k].fn = item.fn
            /\ \A j \in 1..(k - 1) : q.fnWaiters[j].fn # item.fn
    ELSE 0

\* if (waiter) { callback(type, result); this.fnWaiters = array.remove(...) }
\* the promise of the waiter's call settles with the outcome of the
\* execution queued by the call item.call
SettleWaiter(q, e, item, type) ==
    Let(FindWaiter(q, item), LAMBDA k :
        IF k = 0 THEN [q |-> q, e |-> e]
        ELSE [q |-> [q EXCEPT !.fnWaiters = Without(@, k)],
              e |-> [e EXCEPT !.promises =
                        Append(@, [call |-> q.fnWaiters[k].call, type |-> type,
                                   by |-> item.call])]])

\* runNextQueueItem behind its await: the try or the catch block, then the
\* finally block
AfterAwait(q, e, item, type) ==
    Let(SettleWaiter(q, CallCallback(q, e, item, type), item, type),
        LAMBDA r : Finally(r.q, r.e))

\* undefined, what this.queue[0] is when the queue is empty
NoItem == [fn |-> 0, call |-> 0]

\* runNextQueueItem up to its await: the first function leaves the queue and
\* is called; with no function there, item() throws at once and the catch
\* and finally blocks run
RunNextQueueItem(q, e) ==
    IF q.queue = <<>>
    THEN AfterAwait(q, [e EXCEPT !.empties = @ + 1], NoItem, "reject")
    ELSE [q |-> [q EXCEPT !.queue = Tail(@)],
          e |-> [e EXCEPT !.running = Append(@, Head(q.queue)),
                          !.starts = Append(@, Head(q.queue).call),
                          !.started = e.now, !.prevEnd = e.lastEnd]]

\* an add() that runs the function whenever no run is scheduled
RunsWheneverFree(q, now) == ~q.nextRunScheduled

\* an add() that runs the function whenever the wait is over
RunsWheneverDue(q, now) == q.lastRun + q.wait < now

\* if (this.lastRun + this.options.wait < Date.now() && !this.nextRunScheduled)
RunsAtOnce(q, now) == q.lastRun + q.wait < now /\ ~q.nextRunScheduled

\* add(fn) on the queue that already holds fn
AddPushed(q, e) ==
    IF RunsAtOnce(q, e.now)
    THEN RunNextQueueItem([q EXCEPT !.nextRunScheduled = TRUE, !.lastRun = Infinity], e)
    ELSE IF ~q.nextRunScheduled
    THEN [q |-> [q EXCEPT !.nextRunScheduled = TRUE],
          e |-> SetTimeout(e, e.now - q.lastRun + q.wait)]
    ELSE [q |-> q, e |-> e]

\* add(fn)
Add(q, e, fn) == AddPushed([q EXCEPT !.queue = Append(@, fn)], e)

\* addAndWaitForFinish(fn): this.fnWaiters.push([fn, cb]); this.add(fn)
AddAndWaitForFinish(q, e, fn) == Add([q EXCEPT !.fnWaiters = Append(@, fn)], e, fn)

(***************************************************************************)
(* SpecQueue: a queue with some wait; add() is called at any time, timers  *)
(* fire when due or later, queued functions settle at any time after they  *)
(* were called, and time passes                                            *)
(***************************************************************************)
InitQueue ==
    /\ arrays = <<>>
    /\ ips = <<>>
    /\ subnets = <<>>
    /\ iters = <<>>
    /\ ret = [kind |-> "none", op |-> "none"]
    /\ arg = <<>>
    /\ \E wait \in 0..MaxWait : queue = NewQueue(wait)
    /\ env = [now |-> StartTime, timers |-> <<>>, running |-> <<>>, adds |-> 0,
              lastEnd |-> -1, started |-> -1, prevEnd |-> -1,
              starts |-> <<>>, empties |-> 0, log |-> <<>>, promises |-> <<>>,
              outcome |-> [fn |-> 0, call |-> 0, type |-> "none"]]

Idle == UNCHANGED <<arrays, ips, subnets, iters, ret, arg>>

\* somebody calls add(fn)
QueueAdd ==
    /\ env.adds < MaxAdds
    /\ \E fn \in Fns :
          \E r \in {Add(queue, [env EXCEPT !.adds = @ + 1],
                        [fn |-> fn, call |-> env.adds + 1])} :
             queue' = r.q /\ env' = r.e
    /\ Idle

\* a timer that is due fires: runNextQueueItem is called
QueueTimer ==
    /\ \E k \in 1..Len(env.timers) :
          /\ env.timers[k].due <= env.now
          /\ \E r \in {RunNextQueueItem(queue, [env EXCEPT !.timers = Without(@, k)])} :
                queue' = r.q /\ env' = r.e
    /\ Idle

\* the promise of a running function settles, resolved or rejected:
\* runNextQueueItem goes on behind its await
QueueSettle ==
    /\ \E k \in 1..Len(env.running), type \in {"resolve", "reject"} :
          \E r \in {AfterAwait(queue, [env EXCEPT !.running = Without(@, k),
                                                   !.lastEnd = env.now,
                                                   !.outcome = [fn |-> env.running[k].fn,
                                                                call |-> env.running[k].call,
                                                                type |-> type]],
                               env.running[k], type)} :
                queue' = r.q /\ env' = r.e
    /\ Idle

\* a millisecond passes
QueueTick ==
    /\ env.now < StartTime + MaxTime
    /\ env' = [env EXCEPT !.now = @ + 1]
    /\ UNCHANGED queue
    /\ Idle

NextQueue ==
    \/ QueueAdd
    \/ QueueTimer
    \/ QueueSettle
    \/ QueueTick

SpecQueue == InitQueue /\ [][NextQueue]_vars

(***************************************************************************)
(* SpecQueueFair: the queue of SpecQueue with time that never ends. The    *)
(* clock is not counted up: when a millisecond passes, every time the      *)
(* queue and the timers remember moves one millisecond into the past       *)
(* instead, and stops at 0, which is more than any wait ago. Every timer   *)
(* that is due fires in the end, every function called settles in the end, *)
(* and time goes on.                                                       *)
(***************************************************************************)
Earlier(t) == IF t = Infinity \/ t = 0 THEN t ELSE t - 1

\* a millisecond passes
QueuePass ==
    /\ queue' = [queue EXCEPT !.lastRun = Earlier(@)]
    /\ env' = [env EXCEPT !.timers = [k \in 1..Len(@) |-> [due |-> Earlier(@[k].due)]]]
    /\ Idle

NextQueueFair ==
    \/ QueueAdd
    \/ QueueTimer
    \/ QueueSettle
    \/ QueuePass

SpecQueueFair ==
    /\ InitQueue /\ [][NextQueueFair]_vars
    /\ WF_vars(QueueTimer) /\ WF_vars(QueueSettle) /\ WF_vars(QueuePass)

(***************************************************************************)
(* SpecWaiters: the queue of SpecQueue whose callers also wait for their   *)
(* function with addAndWaitForFinish()                                     *)
(***************************************************************************)
\* somebody calls addAndWaitForFinish(fn)
QueueAddAndWait ==
    /\ env.adds < MaxAdds
    /\ \E fn \in Fns :
          \E r \in {AddAndWaitForFinish(queue, [env EXCEPT !.adds = @ + 1],
                                        [fn |-> fn, call |-> env.adds + 1])} :
             queue' = r.q /\ env' = r.e
    /\ Idle

NextWaiters ==
    \/ QueueAdd
    \/ QueueAddAndWait
    \/ QueueTimer
    \/ QueueSettle
    \/ QueueTick

SpecWaiters == InitQueue /\ [][NextWaiters]_vars

(***************************************************************************)
(* SpecCallbacks: the queue of SpecQueue whose owner sets the callbacks    *)
(* with finish() and error() at any time; time passes as in SpecQueueFair  *)
(***************************************************************************)
\* somebody calls finish(callback)
QueueFinish ==
    /\ queue.onFinish = "unset"
    /\ \E callback \in Callbacks : queue' = Finish(queue, callback)
    /\ UNCHANGED env
    /\ Idle

\* somebody calls error(callback)
QueueError ==
    /\ queue.onError = "unset"
    /\ \E callback \in Callbacks : queue' = Error(queue, callback)
    /\ UNCHANGED env
    /\ Idle

NextCallbacks ==
    \/ QueueAdd
    \/ QueueFinish
    \/ QueueError
    \/ QueueTimer
    \/ QueueSettle
    \/ QueuePass

SpecCallbacks == InitQueue /\ [][NextCallbacks]_vars

(***************************************************************************)
(* number.prime (number.ts) and object.deepCompare (object.ts).            *)
(* A JavaScript object is a record of properties; a property is            *)
(* [has, t, v, o]: has says whether the key is in the object, t is typeof  *)
(* of its value, v the value when it is a primitive (a boolean as 0 or 1)  *)
(* and o the object when it is one (<<>> otherwise).                       *)
(***************************************************************************)
MaxPrime == 40

\* for (let j = i * i; j <= input; j += i) sieve[j] = false
Strike(sieve, i, input) ==
    [j \in DOMAIN sieve |->
        sieve[j] /\ ~(j >= i * i /\ j <= input /\ (j - i * i) % i = 0)]

\* for (let i = 2; i <= input; i++) if (sieve[i]) ...
RECURSIVE SieveLoop(_, _, _)
SieveLoop(sieve, i, input) ==
    IF i > input THEN sieve
    ELSE Let(IF sieve[i] THEN Strike(sieve, i, input) ELSE sieve,
             LAMBDA s : SieveLoop(s, i + 1, input))

\* new Array(input + 1).fill(true); sieve[0] = sieve[1] = false; the loops
Sieve(input) == SieveLoop([k \in 0..input |-> k > 1], 2, input)

\* prime(input): the sieve is filled in, and true is returned
prime(input) ==
    IF input <= 1 THEN FALSE
    ELSE Let(Sieve(input), LAMBDA sieve : TRUE)

Absent == [has |-> FALSE, t |-> "undefined", v |-> 0, o |-> <<>>]
Primitive(t, v) == [has |-> TRUE, t |-> t, v |-> v, o |-> <<>>]
Nested(o) == [has |-> TRUE, t |-> "object", v |-> 0, o |-> o]

\* Object.keys(object)
Keys(object) == {key \in DOMAIN object : object[key].has}

\* typeof object[key]
TypeOf(property) == IF property.has THEN property.t ELSE "undefined"

\* the three checks of handleObject on one key: TRUE when none throws
HandleKey(object, compare, key) ==
    /\ ~compare[key].has
    /\ TypeOf(object[key]) = TypeOf(compare[key])
    /\ (TypeOf(object[key]) # "object" => object[key].v = compare[key].v)

\* handleObject: TRUE when it returns true, FALSE when it throws false
RECURSIVE handleObject(_, _)
handleObject(object, compare) ==
    \A key \in Keys(object) :
        /\ HandleKey(object, compare, key)
        /\ (TypeOf(object[key]) = "object" =>
               handleObject(object[key].o, compare[key].o))

\* deepCompare(object, compare); same: the two are one and the same object
deepCompare(object, compare, same) ==
    IF same THEN TRUE ELSE handleObject(object, compare)

(***************************************************************************)
(* SpecHelpers: one call of prime() on an integer, or one call of          *)
(* deepCompare() on two objects with the keys ok and e, e being a number   *)
(* or an object with the key g                                             *)
(***************************************************************************)
PrimeInputs == [form : {"prime"}, input : (0 - MaxPrime)..MaxPrime]

InnerObjects ==
    {[g |-> p] : p \in {Absent, Primitive("number", 0), Primitive("number", 1)}}

Objects ==
    [ok : {Absent, Primitive("boolean", 1), Primitive("boolean", 0),
           Primitive("undefined", 0)},
     e : {Absent, Primitive("number", 0)} \cup {Nested(o) : o \in InnerObjects}]

CompareInputs ==
    [form : {"deepCompare"}, object : Objects, compare : Objects, same : {FALSE}]
    \cup {[form |-> "deepCompare", object |-> o, compare |-> o, same |-> TRUE] :
            o \in Objects}

InitHelpers ==
    /\ arrays = <<>>
    /\ ips = <<>>
    /\ subnets = <<>>
    /\ iters = <<>>
    /\ ret = [kind |-> "none", op |-> "none"]
    /\ NoQueue
    /\ \/ arg \in PrimeInputs
       \/ arg \in CompareInputs

CallPrime ==
    /\ ret.op = "none" /\ arg.form = "prime"
    /\ ret' = [kind |-> "value", op |-> "prime", value |-> prime(arg.input)]
    /\ UNCHANGED <<arrays, ips, subnets, iters, arg, queue, env>>

CallDeepCompare ==
    /\ ret.op = "none" /\ arg.form = "deepCompare"
    /\ ret' = [kind |-> "value", op |-> "deepCompare",
               value |-> deepCompare(arg.object, arg.compare, arg.same)]
    /\ UNCHANGED <<arrays, ips, subnets, iters, arg, queue, env>>

NextHelpers ==
    \/ CallPrime
    \/ CallDeepCompare

SpecHelpers == InitHelpers /\ [][NextHelpers]_vars

(***************************************************************************)
(* Properties of construction (SpecBuild)                                  *)
(***************************************************************************)
Width(type) == IF type = 4 THEN 32 ELSE 128

BitOr(a, b) == a + b - BitAnd(a, b)

\* subnet s holds the prefix mask of its netmask: the top netmask bits of
\* the address width
HoldsPrefixMask(s) ==
    BigAdd(IPInt(subnets[s].type, Mask0(s)),
           BigPow2(Width(subnets[s].type) - subnets[s].netmask))
        = BigPow2(Width(subnets[s].type))

\* C1: after any successful construction of a Subnet from CIDR text, every
\* element of the stored base has no bit outside the subnet mask
\* (base[i] AND NOT subnetmask[i] = 0), the mask is the prefix mask, and so
\* first() is the network address of the address that was given.
C1_BaseIsMasked ==
    /\ \A s \in 1..Len(subnets) :
          /\ HoldsPrefixMask(s)
          /\ \A k \in 1..ElemCount(subnets[s].type) :
                BitAnd(Base0(s)[k], ElemMax(subnets[s].type) - Mask0(s)[k]) = 0
    /\ (ret.kind = "subnet" /\ ret.op = "Subnet") =>
          Let(IPFromText(arg.addr, 0).data, LAMBDA given :
              \A k \in 1..ElemCount(subnets[ret.id].type) :
                 Base0(ret.id)[k] = BitAnd(given[k], Mask0(ret.id)[k]))

\* a /0 IPv6 subnet built from an address with bits set
C1_Witness ==
    /\ ret.kind = "subnet" /\ ret.op = "Subnet"
    /\ arg.ver = 6 /\ arg.p = 0
    /\ IPFromText(arg.addr, 0).data # Base0(ret.id)

\* C4: for every constructed Subnet, element i of last() is
\* base[i] OR (NOT subnetmask[i] AND elementMax), and the sum the code
\* computes for it stays within the element width.
C4_LastIsBaseWithHostOnes ==
    ret.kind = "last" =>
        \A k \in 1..ElemCount(ret.type) :
            /\ ret.data[k] = BitOr(Base0(ret.sub)[k], ElemMax(ret.type) - Mask0(ret.sub)[k])
            /\ ElemMax(ret.type) - Mask0(ret.sub)[k] + Base0(ret.sub)[k] <= ElemMax(ret.type)

\* last() of an IPv4 subnet whose prefix ends inside an element with base bits
C4_Witness ==
    /\ ret.kind = "last" /\ ret.type = 4
    /\ subnets[ret.sub].netmask = 30
    /\ Base0(ret.sub)[4] # 0

C8_PrefixRequired ==
    /\ (arg.form = "subnet" /\ ret.op = "Subnet" /\ arg.ver # 0
            /\ arg.p \notin 0..Width(arg.ver)) => ret.kind = "threw"
    /\ \A s \in 1..Len(subnets) : subnets[s].netmask \in 0..Width(subnets[s].type)

\* an IPv4 address with the prefix 33 is refused
C8_Witness ==
    /\ arg.form = "subnet" /\ arg.ver = 4 /\ arg.p = 33
    /\ ret.kind = "threw" /\ ret.op = "Subnet" /\ ret.err = "Invalid Subnet"

\* C10: for every input form of the IPAddress and Subnet constructors, a
\* construction given an expected version succeeds only with that version:
\* an expected version other than the inferred one makes it fail.
C10_MismatchFails ==
    (ret.kind \in {"ip", "subnet"} /\ ret.type # 0) =>
        ret.type = (IF ret.kind = "ip" THEN ips[ret.id].type ELSE subnets[ret.id].type)

(***************************************************************************)
(* Properties of iteration and includes() (Spec, SpecLongWalk)             *)
(***************************************************************************)
\* first().int() of the subnet iterator k came from
IterBaseInt(k) == IPInt(iters[k].type, RawData(iters[k].first))

\* C2: iterating a Subnet yields exactly size() addresses and then reports
\* done; the k-th address yielded (k = 0 .. size()-1) has
\* int() = first().int() + k.  After a next() the cursor counts the addresses
\* yielded so far, so the address just yielded is number cursor - 1.
C2_KthIsFirstPlusK ==
    ret.kind = "next" =>
        IF ret.done THEN iters[ret.iter].i = iters[ret.iter].size
        ELSE /\ BigLeq(iters[ret.iter].i, iters[ret.iter].size)
             /\ BigAdd(IPInt(ret.type, ret.data), BigFromNat(1))
                  = BigAdd(IterBaseInt(ret.iter), iters[ret.iter].i)

\* C3: for any interleaving of next() calls on iterators of the same Subnet,
\* a step changes the cursor of no iterator but the one whose next() it is;
\* that one moves by one and yields first() + its own cursor, and a new
\* iterator starts at first().
C3_IteratorsIndependent ==
    [][/\ \A j \in 1..Len(iters) :
            IF ret'.kind = "next" /\ ret'.iter = j /\ ret' # ret
            THEN IF ret'.done THEN iters'[j] = iters[j] /\ iters[j].i = iters[j].size
                 ELSE /\ iters'[j] = [iters[j] EXCEPT !.i = BigAdd(iters[j].i, BigFromNat(1))]
                      /\ IPInt(ret'.type, ret'.data) = BigAdd(IterBaseInt(j), iters[j].i)
            ELSE iters'[j] = iters[j]
       /\ Len(iters') > Len(iters) => iters'[Len(iters')].i = BigZero]_vars

\* two iterators of one subnet, both under way, at different cursors
C3_Witness ==
    /\ Len(iters) = 2 /\ iters[1].sub = iters[2].sub
    /\ iters[1].i # BigZero /\ iters[2].i # BigZero /\ iters[1].i # iters[2].i
    /\ ret.kind = "next" /\ ~ret.done

\* the range the target ref of includes() stands for
TargetOf(ref) == IF ref[1] = "ip" THEN TargetOfIP(ref[2]) ELSE TargetOfSubnet(ref[2])

\* C6: S.includes(t1, ..., tn) is true exactly when every target has S's IP
\* version and its range [lo, hi] lies within [S.first().int(),
\* S.last().int()]; a target of the other version makes it false, no error.
C6_IncludesIsRangeCheck ==
    (ret.kind = "includes" /\ ret.op = "includes") =>
        ret.value =
            \A k \in 1..Len(ret.refs) :
                /\ TargetOf(ret.refs[k]).type = subnets[ret.sub].type
                /\ BigLeq(IPInt(subnets[ret.sub].type, Base0(ret.sub)),
                          IPInt(subnets[ret.sub].type, TargetOf(ret.refs[k]).lo))
                /\ BigLeq(IPInt(subnets[ret.sub].type, TargetOf(ret.refs[k]).hi),
                          IPInt(subnets[ret.sub].type,
                                LastData(subnets[ret.sub].type, Mask0(ret.sub), Base0(ret.sub))))

\* includes() of an address and of another, smaller subnet: true
C6_Witness ==
    /\ ret.kind = "includes" /\ ret.op = "includes" /\ ret.value
    /\ Len(ret.refs) = 2
    /\ ret.refs[1][1] = "ip"
    /\ ret.refs[2][1] = "subnet" /\ Base0(ret.refs[2][2]) # Base0(ret.sub)

\* C7: S.includes(a) is true for every address a that S's own iterator
\* yields, and S.includes(x) is false for every x of the other IP version.
C7_OwnAddressesIncluded ==
    /\ (ret.kind = "includes" /\ ret.op = "includesYielded"
            /\ iters[ret.iter].sub = ret.sub) => ret.value
    /\ (ret.kind = "includes" /\ ret.op = "includes" /\ Len(ret.refs) = 1
            /\ TargetOf(ret.refs[1]).type # subnets[ret.sub].type) => ~ret.value

(***************************************************************************)
(* Properties of validation (SpecValidate)                                 *)
(***************************************************************************)
PrefixInRange(v, p) == (v = "v4" /\ p \in 0..32) \/ (v = "v6" /\ p \in 0..128)

\* C9: isSubnet(a + '/' + p, wanted) is the version v that isIP(a, wanted)
\* detects whenever p is in range for v (0..32 for v4, 0..128 for v6), and
\* false in every other case.
C9_SubnetFollowsIP ==
    (ret.kind = "value" /\ ret.op = "isSubnet") =>
        ret.value = (IF PrefixInRange(isIP(arg.addr, arg.wanted), arg.p)
                     THEN isIP(arg.addr, arg.wanted) ELSE "false")

(***************************************************************************)
(* Properties of the numeric constructors (SpecBuild)                      *)
(***************************************************************************)
\* C11: constructing an IPAddress from an integer number n succeeds exactly
\* when 0 <= n <= 4294967295 and then gives a version-4 address with
\* int() = n; constructing from a bigint b succeeds exactly when
\* 0 <= b <= 2^128 - 1 and then gives a version-6 address with int() = b.
C11_NumericForms ==
    /\ ret.op = "IPNumber" =>
          /\ (ret.kind = "ip") = (~IsNegative(arg.value) /\ BigLeq(arg.value.mag, MAX_IPV4_LONG))
          /\ ret.kind = "ip" =>
                /\ ips[ret.id].type = 4
                /\ IPInt(ips[ret.id].type, RawData(ret.id)) = arg.value.mag
    /\ ret.op = "IPBigInt" =>
          /\ (ret.kind = "ip") = (~IsNegative(arg.value) /\ BigLeq(arg.value.mag, MAX_IPV6_LONG))
          /\ ret.kind = "ip" =>
                /\ ips[ret.id].type = 6
                /\ IPInt(ips[ret.id].type, RawData(ret.id)) = arg.value.mag

\* the largest number and, in another run, the largest bigint are accepted:
\* here the number 2^32 - 1, whose upper bit makes it negative as an int32
C11_Witness ==
    /\ ret.op = "IPNumber" /\ ret.kind = "ip"
    /\ arg.value.mag = MAX_IPV4_LONG
    /\ RawData(ret.id) = <<255, 255, 255, 255>>

ZeroRuns(data) ==
    {r \in (1..Len(data)) \X (1..Len(data)) :
        /\ r[1] <= r[2]
        /\ \A k \in r[1]..r[2] : data[k] = 0
        /\ r[1] = 1 \/ data[r[1] - 1] # 0
        /\ r[2] = Len(data) \/ data[r[2] + 1] # 0}

\* the groups i..j in hexadecimal without leading zeros, joined by ':'
HexGroups(data, i, j) == Join([k \in 1..(j - i + 1) |-> NumText(data[i + k - 1], 16)], ":")

\* the text of an address with the run r of zero groups written as '::'
CompressedAt(data, r) ==
    HexGroups(data, 1, r[1] - 1) \o <<":", ":">> \o HexGroups(data, r[2] + 1, Len(data))

\* C13: for every IPv6 address, short() renders each group without leading
\* zeros and replaces exactly one run of zero groups, the longest one, with
\* '::', leaving every other group (other zero groups included) in its place.
C13_ShortCompressesLongestRun ==
    (ret.op = "short" /\ ips[ret.id].type = 6) =>
        Let(RawData(ret.id), LAMBDA data :
        Let(ZeroRuns(data), LAMBDA runs :
            IF runs = {} THEN ret.value = HexGroups(data, 1, Len(data))
            ELSE \E r \in runs :
                    /\ \A q \in runs : q[2] - q[1] <= r[2] - r[1]
                    /\ ret.value = CompressedAt(data, r)))

\* short() of 0:0:db8:0:0:0:0:0 is "::db8", the text of another address
C13_OtherZerosLost ==
    /\ ret.op = "short" /\ RawData(ret.id) = <<0, 0, 3512, 0, 0, 0, 0, 0>>
    /\ ret.value = <<":", ":", "d", "b", "8">>

(***************************************************************************)
(* Properties of isIP on colon-separated text (SpecGroups)                 *)
(***************************************************************************)
\* a group written in hexadecimal digits only, with a value in 0..65535
IsHexGroup(g) ==
    /\ g # <<>>
    /\ \A k \in 1..Len(g) : CharVal(g[k]) < 16
    /\ BigLeq(DigitsValue(g, 16, Len(g)), BigFromNat(65535))

\* the zero-run markers of colon-separated groups: the maximal runs of
\* empty groups
Markers(groups) == ZeroRuns([k \in 1..Len(groups) |-> IF groups[k] = <<>> THEN 0 ELSE 1])

\* C14: isIP accepts colon-separated text only if it has at most 8 groups,
\* every non-empty group is hexadecimal in 0..65535, and it contains at most
\* one zero-run marker (adjacent empty groups count as one marker); when
\* there is no marker exactly 8 groups are required.
C14_ColonTextAccepted ==
    (ret.op = "isIP" /\ ret.value # "false" /\ StrIncludes(arg.addr, ":")) =>
        Let(Split(arg.addr, ":"), LAMBDA groups :
            /\ Len(groups) <= 8
            /\ \A k \in 1..Len(groups) : groups[k] = <<>> \/ IsHexGroup(groups[k])
            /\ Cardinality(Markers(groups)) <= 1
            /\ Cardinality(Markers(groups)) = 0 => Len(groups) = 8)

\* isIP accepts "1::1:", which has a marker in the middle and one at the end
C14_TwoMarkersAccepted ==
    /\ ret.op = "isIP" /\ ret.value = "v6"
    /\ arg.addr = <<"1", ":", ":", "1", ":">>

(***************************************************************************)
(* Properties of isIP and the wanted version (SpecValidate)                *)
(***************************************************************************)
\* a decimal integer of digits only, up to 4294967295
IsPackedV4(t) ==
    /\ t # <<>>
    /\ \A k \in 1..Len(t) : CharVal(t[k]) < 10
    /\ BigLeq(DigitsValue(t, 10, Len(t)), MAX_IPV4_LONG)

\* C15: isIP(text, wanted) never returns a version that wanted excludes;
\* dotted IPv4 text is rejected under 'v6', colon text is rejected under
\* 'v4', and a bare decimal integer up to 4294967295, valid as both, is
\* reported as 'v4' unless wanted is 'v6'.
C15_WantedIsRespected ==
    ret.op = "isIP" =>
        /\ arg.wanted = "v4" => ret.value \in {"v4", "false"}
        /\ arg.wanted = "v6" => ret.value \in {"v6", "false"}
        /\ (StrIncludes(arg.addr, ".") /\ arg.wanted = "v6") => ret.value = "false"
        /\ (StrIncludes(arg.addr, ":") /\ arg.wanted = "v4") => ret.value = "false"
        /\ IsPackedV4(arg.addr) => ret.value = (IF arg.wanted = "v6" THEN "v6" ELSE "v4")

\* 3232236033 asked for as 'v6' is 'v6'
C15_Witness ==
    /\ ret.op = "isIP" /\ arg.wanted = "v6" /\ ret.value = "v6"
    /\ arg.addr = <<"3", "2", "3", "2", "2", "3", "6", "0", "3", "3">>

\* C16: isIP and isSubnet never raise: for every string input and every
\* wanted version they return 'v4', 'v6' or false.
C16_ValidationNeverRaises ==
    ret.op \in {"isIP", "isSubnet"} =>
        /\ ret.kind = "value"
        /\ ret.value \in {"v4", "v6", "false"}

\* isSubnet of a text whose address part BigInt() cannot read: false
C16_Witness ==
    /\ ret.op = "isSubnet" /\ ret.kind = "value" /\ ret.value = "false"
    /\ arg.wanted = "v6 | v4" /\ arg.p = 24
    /\ BigIntOfString(arg.addr).err
    /\ ~checkV4(arg.addr)

(***************************************************************************)
(* Properties of construction from any text (SpecProbe)                    *)
(***************************************************************************)
VersionOf(v) == IF v = "v4" THEN 4 ELSE 6

\* C17: for every text t, new IPAddress(t) succeeds exactly when isIP(t) is
\* not false and the address then has the version isIP(t) reports;
\* new Subnet(t) succeeds exactly when isSubnet(t) is not false.
C17_ConstructionFollowsValidation ==
    /\ ret.op = "IPText" =>
          /\ (ret.kind = "ip") = (isIP(arg.value, "v6 | v4") # "false")
          /\ ret.kind = "ip" =>
                ips[ret.id].type = VersionOf(isIP(arg.value, "v6 | v4"))
    /\ ret.op = "Subnet" =>
          (ret.kind = "subnet") = (isSubnet(arg.value, "v6 | v4") # "false")

\* new IPAddress('') is refused although isIP('') is 'v6'
C17_EmptyTextRefused ==
    /\ ret.op = "IPText" /\ arg.value = <<>>
    /\ ret.kind = "threw" /\ ret.err = "TypeError"
    /\ isIP(arg.value, "v6 | v4") = "v6"

(***************************************************************************)
(* Properties of the read operations (SpecRead)                            *)
(***************************************************************************)
ReadOps == {"long", "short", "usual", "int", "equals",
            "first", "last", "size", "includes", "iterator", "next"}

\* C18: no call of a read operation of IPAddress (long, short, usual, int,
\* equals) or of Subnet (first, last, size, includes, creating and advancing
\* iterators) changes the rawData of any IPAddress or the base, subnetmask
\* or netmask of any Subnet.
C18_ReadsLeaveObjectsAlone ==
    [][ret'.op \in ReadOps =>
          /\ \A i \in 1..Len(ips) :
                /\ ips'[i] = ips[i]
                /\ arrays'[ips[i].raw] = arrays[ips[i].raw]
          /\ \A s \in 1..Len(subnets) :
                /\ subnets'[s] = subnets[s]
                /\ arrays'[subnets[s].subnetmask] = arrays[subnets[s].subnetmask]]_vars

\* an iterator has yielded an address other than first(), and first() is
\* still the base the subnet was built with
C18_Witness ==
    /\ ret.op = "next" /\ ~ret.done
    /\ ret.data # RawData(iters[ret.iter].first)
    /\ RawData(iters[ret.iter].first) = <<10, 1, 2, 0>>

(***************************************************************************)
(* Properties of the Queue (SpecQueue)                                     *)
(***************************************************************************)
\* C19: for any sequence of add() calls at any times, at least `wait`
\* milliseconds pass between the end of one queued function's execution and
\* the start of the next one.
C19_WaitBetweenRuns ==
    env.prevEnd # -1 => env.started >= env.prevEnd + queue.wait

\* a function was started a full, non-zero wait after the one before ended
C19_Witness ==
    /\ env.prevEnd # -1 /\ queue.wait > 0
    /\ env.started = env.prevEnd + queue.wait
    /\ env.running # <<>>

\* C20: at most one queued function is executing at any time; the next
\* queued function starts only after the previous one has finished, for
\* any interleaving of add() calls, timer firings and completions.
C20_OneAtATime == Len(env.running) <= 1

\* a function is running, another one waits, and one has finished before
C20_Witness ==
    /\ Len(env.running) = 1 /\ queue.queue # <<>>
    /\ env.lastEnd # -1

(***************************************************************************)
(* Properties of addAndWaitForFinish (SpecWaiters)                         *)
(***************************************************************************)
\* C21: the promise of addAndWaitForFinish(fn) settles only once the
\* execution of fn that this very call queued has completed, and with that
\* execution's outcome, also when the same function is added to the queue
\* more than once.
C21_SettledByOwnExecution ==
    \A k \in 1..Len(env.promises) : env.promises[k].by = env.promises[k].call

\* the same function was queued by add() and then by addAndWaitForFinish(),
\* and the promise has settled
C21_SameFunctionTwice ==
    \E k \in 1..Len(env.promises) :
        /\ env.promises[k].by < env.promises[k].call
        /\ env.promises[k].call \notin {env.starts[j] : j \in 1..Len(env.starts)}

(***************************************************************************)
(* Properties of the callbacks (SpecCallbacks)                             *)
(***************************************************************************)
\* the call of onError that the function of env.outcome is owed
ErrorCall(q, o) ==
    [callback |-> "onError", fn |-> o.fn, call |-> o.call, threw |-> q.onError = "throws"]

\* C22: when a queued function throws or rejects, the error callback, if
\* set, is called once with that function and the finish callback is not
\* called for it; and whatever the outcome, and whether or not the callback
\* throws, the functions still queued stay queued and the next run is
\* scheduled.
C22_ErrorsReported ==
    [][Len(env'.running) < Len(env.running) =>
          /\ env'.outcome.type = "reject" =>
                env'.log = env.log \o (IF queue.onError = "unset" THEN <<>>
                                        ELSE <<ErrorCall(queue, env'.outcome)>>)
          /\ Len(env'.log) <= Len(env.log) + 1
          /\ queue'.queue = queue.queue
          /\ queue.queue # <<>> =>
                /\ queue'.nextRunScheduled
                /\ env'.timers = Append(env.timers, [due |-> env.now + queue.wait])]_vars

\* a function was rejected, the error callback was called with it and
\* threw, and the next function of the queue was called afterwards
C22_Witness ==
    \E k \in 1..Len(env.log) :
        /\ env.log[k].callback = "onError" /\ env.log[k].threw
        /\ \E j \in 1..Len(env.starts) : env.starts[j] > env.log[k].call
        /\ env.running # <<>>

(***************************************************************************)
(* Properties of prime() and deepCompare() (SpecHelpers)                   *)
(***************************************************************************)
IsPrime(n) == n > 1 /\ \A d \in 2..(n - 1) : n % d # 0

\* C23: prime(n) is true exactly when n is a prime number: false for every
\* integer n <= 1 and every composite n, true for every prime.
C23_PrimeIsPrimality ==
    ret.op = "prime" => ret.value = IsPrime(arg.input)

\* prime() was asked about a composite number
C23_CompositeAsked ==
    ret.op = "prime" /\ arg.input > 1 /\ ~IsPrime(arg.input)

\* the values of two properties are deeply equal: the same type, and the
\* same primitive or objects with the same keys and deeply equal values
RECURSIVE DeepEqual(_, _)
DeepEqual(p, q) ==
    /\ p.has = q.has /\ TypeOf(p) = TypeOf(q)
    /\ IF TypeOf(p) = "object"
       THEN \A key \in DOMAIN p.o : DeepEqual(p.o[key], q.o[key])
       ELSE p.v = q.v

\* every key of a is in b; a nested object of a may have fewer keys than
\* its counterpart, but none that differs
RECURSIVE Covered(_, _)
Covered(a, b) ==
    \A key \in Keys(a) :
        /\ b[key].has /\ TypeOf(a[key]) = TypeOf(b[key])
        /\ IF TypeOf(a[key]) = "object" THEN Covered(a[key].o, b[key].o)
           ELSE a[key].v = b[key].v

\* C24: deepCompare(a, b) is true when every key of a is in b with a deeply
\* equal value, and false when some key of a is missing in b or has a
\* different value.
C24_CompareFollowsKeys ==
    ret.op = "deepCompare" =>
        /\ (\A key \in Keys(arg.object) :
               DeepEqual(arg.object[key], arg.compare[key])) => ret.value
        /\ ~Covered(arg.object, arg.compare) => ~ret.value

\* the documented call: deepCompare({ ok: true, e: { g: 0 } },
\* { ok: true, e: { g: 0 } }), on two objects
C24_DocumentedCall ==
    /\ ret.op = "deepCompare" /\ ~arg.same
    /\ arg.object = [ok |-> Primitive("boolean", 1),
                     e |-> Nested([g |-> Primitive("number", 0)])]
    /\ arg.compare = arg.object

(***************************************************************************)
(* Properties of the short text read back (SpecRoundTrip)                  *)
(***************************************************************************)
\* C25: for every address x of either version, the address built from
\* x.short() equals x.
C25_ShortReadsBack ==
    ret.op = "IPShortText" =>
        /\ ret.kind = "ip"
        /\ IPEquals(IPValue(ret.id), IPValue(ret.input))

\* the short text of an IPv4 address whose last two segments are 0 was
\* read back as an address
C25_TrailingZeros ==
    /\ ret.op = "IPShortText" /\ ret.kind = "ip"
    /\ ips[ret.input].type = 4
    /\ RawData(ret.input)[1] # 0 /\ RawData(ret.input)[2] # 0
    /\ RawData(ret.input)[3] = 0 /\ RawData(ret.input)[4] = 0

(***************************************************************************)
(* Properties of writes to shared arrays (SpecAlias)                       *)
(***************************************************************************)
\* C26: a write to the caller's array, to the rawData of an address or to
\* the rawData of the address returned by first() changes no other
\* address and no subnet (other than the subnet whose first() it was).
C26_WritesStayPrivate ==
    [][ret'.op = "write" =>
          /\ \A j \in 1..Len(ips) :
                j # ret'.id => arrays'[ips[j].raw] = arrays[ips[j].raw]
          /\ \A s \in 1..Len(subnets) :
                (ret.kind = "first" /\ s = ret.sub) \/
                   /\ arrays'[ips[subnets[s].iFirst].raw] = arrays[ips[subnets[s].iFirst].raw]
                   /\ arrays'[subnets[s].subnetmask] = arrays[subnets[s].subnetmask]]_vars

\* the program wrote to the array it had built an address from
C26_CallerWrote ==
    ret.op = "write" /\ ret.via = "array" /\ Len(ips) = 1

(***************************************************************************)
(* Properties of an exhausted iterator (SpecRead)                          *)
(***************************************************************************)
\* C27: next() reports done only at the end of the subnet, and an iterator
\* at the end stays there: every later next() on it reports done and
\* yields no address.
C27_DoneStaysDone ==
    [][/\ (ret'.kind = "next" /\ ret'.done) =>
             iters'[ret'.iter].i = iters'[ret'.iter].size
       /\ \A k \in 1..Len(iters) :
             iters[k].i = iters[k].size =>
                /\ iters'[k] = iters[k]
                /\ (ret'.kind = "next" /\ ret'.iter = k) => ret'.done]_vars

\* next() reported done on an iterator that had yielded addresses
C27_Witness ==
    /\ ret.kind = "next" /\ ret.done
    /\ iters[ret.iter].size # BigFromNat(0)

(***************************************************************************)
(* Properties of the order of the runs (SpecQueue)                         *)
(***************************************************************************)
\* C28: the queued functions are started in the order of their add()
\* calls, each of them exactly once: the calls started so far are the
\* first ones, in order, and the others wait in the queue, in order; and
\* runNextQueueItem never finds the queue empty.
C28_StartedInOrder ==
    /\ env.empties = 0
    /\ env.starts = [k \in 1..Len(env.starts) |-> k]
    /\ Len(env.starts) + Len(queue.queue) = env.adds
    /\ \A k \in 1..Len(queue.queue) : queue.queue[k].call = Len(env.starts) + k

\* three functions were added and started, the last two by timers, and
\* no timer is left
C28_Witness ==
    /\ Len(env.starts) >= 3 /\ env.starts = [k \in 1..Len(env.starts) |-> k]
    /\ env.timers = <<>> /\ queue.queue = <<>>

(***************************************************************************)
(* Properties of the queue in the long run (SpecQueueFair)                 *)
(***************************************************************************)
\* C29: the queue never holds a function while no run is in progress and
\* no timer for the next run is pending; and when timers fire and functions
\* settle, the function of every add() call is called in the end.
C29_EveryAddedRuns ==
    /\ [](queue.queue # <<>> => (env.running # <<>> \/ env.timers # <<>>))
    /\ \A c \in 1..MaxAdds :
          (env.adds >= c) ~> (\E j \in 1..Len(env.starts) : env.starts[j] = c)

\* two functions or more were added, all of them have been called, and
\* the last one has settled
C29_Witness ==
    /\ env.adds >= 2 /\ Len(env.starts) = env.adds
    /\ env.running = <<>> /\ env.outcome.call = env.adds
====
